---- MODULE Spec2Model ----
(***************************************************************************)
(* Verification model of the UNCONS voice tutor backend.                   *)
(*                                                                         *)
(* Specifications sharing this module:                                     *)
(*   Spec        - the voice agent: VoiceState (agents/state.py), the      *)
(*                 orchestrator (agents/voice_orchestrator.py), the        *)
(*                 evaluation service and the agent's handlers             *)
(*                 (agents/uncons_agent.py, agents/worker.py).             *)
(*   SpecManager - the session manager, the recovery store (C11) and the   *)
(*                 flashcard store, with every await of start_session,     *)
(*                 record_rating and end_session as a separate step.       *)
(*   SpecGraph, SpecReplay, SpecSession - the orchestrator's graph nodes,  *)
(*                 the replay of queued input, one session's ratings.      *)
(*   SpecWorker, SpecDedup - the worker's speech handlers, its tasks and   *)
(*                 the publication of agent messages.                      *)
(*   SpecDispatch, SpecCards, SpecEnd - the token route's agent dispatch,  *)
(*                 the card routes, concurrent end_session calls.          *)
(*   SpecUndo, SpecClose - an undo before the session ends, end_session    *)
(*                 calls whose last write to the recovery store fails.     *)
(*   SpecEvaluate, SpecValidate - the evaluation service over a failing    *)
(*                 LLM adapter, the check of an answer's text.             *)
(*   SpecTurn, SpecTable - the voice session graph with the turn detector, *)
(*                 the sessions table across restarts.                     *)
(* A card is its id 1..MaxCards; 0 stands for None.                        *)
(***************************************************************************)
EXTENDS Integers, Sequences, FiniteSets, TLC

\* ---------------------------------------------------------------- bounds
MaxCards == 2
MaxHistory == 2
MaxHints == 3
MaxQueued == 1
MaxSessions == 2
MaxRatings == 2
MaxRows == 3
MaxTimeouts == 4
MaxUtterances == 2
MaxTasks == 1
MaxClock == 40
MaxReceived == 2
MaxDispatches == 2
MaxTicks == 3
MaxText == 3

\* ------------------------------------------------------ program constants
MAX_SOCRATIC_TURNS == 2
DEDUP_SECONDS == 30
ROOM_EXPIRY_SECONDS == 300
AGAIN == 1
HARD == 2
GOOD == 3

Ratings == 1..4
None == 0

VARIABLES
    \* VoiceState (agents/state.py)
    current_card, previous_card, card_queue, rating_history, hints_used,
    socratic_turn_count, cards_reviewed, should_end, current_state,
    \* answers handed to generate_reply and not yet evaluated, and the
    \* evaluations awaiting the LLM with the card and turn count they captured
    queued, inflight,
    \* what the last handler published / fired / was
    events, fired, lastOp, lastEval,
    \* history variables
    initial_queue_len, hint_taken, rated

voiceVars == <<current_card, previous_card, card_queue, rating_history,
               hints_used, socratic_turn_count, cards_reviewed, should_end,
               current_state, queued, inflight, events, fired, lastOp,
               lastEval, initial_queue_len, hint_taken, rated>>

VARIABLES
    \* SessionManager._active_session (a session id, None for none) and
    \* the sessions created so far (domain/services/session_manager.py)
    active_session, session_count,
    \* Session.state and Session.pending_ratings by session id, and whether
    \* the active session's last_activity is older than the timeout
    session_state, pending_ratings, timed_out,
    \* RecoveryStore: the pending_reviews table and the save_review calls
    \* waiting for the store (infrastructure/recovery_store.py)
    pending_reviews, save_queue,
    \* the record_rating calls made so far, each rating's number (rid), and
    \* the ratings whose submit_review succeeded
    rating_count, submitted_ok,
    \* the start_session calls and the end_session call in progress
    starters, ender,
    \* what the last manager step was and the last submit_review call
    mgrOp, last_submit

mgrVars == <<active_session, session_count, session_state, pending_ratings,
             timed_out, pending_reviews, save_queue, rating_count,
             submitted_ok, starters, ender, mgrOp, last_submit>>

VARIABLES
    \* VoiceState error tracking (agents/state.py): the count of consecutive
    \* timeouts and last_error ("none" for None)
    consecutive_timeouts, last_error

nodeVars == <<consecutive_timeouts, last_error>>

VARIABLES
    \* the utterances the worker's handlers speak (agents/worker.py): for
    \* each its text, the handler's and the speech's progress, the
    \* track_speaking_state task, the id of its agent_message and the last
    \* agent_speaking_state published for it
    utt, utt_count,
    \* AgentMessagePublisher._pending_message_ids and the ULIDs drawn so far
    pending_message_ids, next_ulid,
    \* whether the room's "disconnected" event was handled, and the
    \* fire-and-forget tasks of the agent still running
    disconnected, ff_tasks,
    \* _published_text_hashes (a time by hash, -1 for no entry), the clock
    \* in seconds, and how many agent_message packets with each text the
    \* agent and the conversation hook sent to the client
    published_text_hashes, now, received,
    \* history: when the agent last published each text (-1 for never),
    \* the last worker step and its text
    agent_published_at, wOp, wText

workerVars == <<utt, utt_count, pending_message_ids, next_ulid, disconnected,
                ff_tasks, published_text_hashes, now, received,
                agent_published_at, wOp, wText>>

VARIABLES
    \* api/routes/livekit.py: _dispatched_rooms (a time by room, -1 for no
    \* entry), the holder of _dispatch_lock, the get_token calls in
    \* progress, the clock in seconds, and (history) the times at which
    \* create_dispatch created a dispatch for each room
    dispatched_rooms, dispatch_lock, token_req, api_clock, dispatches,
    \* Session.cards and Session.current_index of the active session and
    \* the last answer of POST /cards/{id}/rate or /skip
    session_cards, current_index, rate_response,
    \* the end_session calls in progress by caller, and (history) how many
    \* submit_review calls the flashcard store accepted for each rating
    end_calls, submit_calls,
    \* the last step of these
    apiOp,
    \* the services around the session, one field each: evaluated,
    \* validated, graph_run and sessions_table
    services

\* the last answer handed to the evaluation (the failure of the LLM call,
\* the LLM's response, the Socratic turn count) and what came back
evaluated == services.evaluated

\* the last answer text checked before evaluation and whether it was
\* rejected
validated == services.validated

\* one card's run of the voice session graph and the last call of the
\* turn detector
graph_run == services.graph_run

\* the sessions table of the recovery store (state and ended_at of each
\* row) and the time of day
sessions_table == services.sessions_table

serviceVars == <<services>>

apiVars == <<dispatched_rooms, dispatch_lock, token_req, api_clock,
             dispatches, session_cards, current_index, rate_response,
             end_calls, submit_calls, apiOp, serviceVars>>

vars == <<voiceVars, mgrVars, nodeVars, workerVars, apiVars>>

\* ------------------------------------------------------------- helpers
Range(s) == {s[i] : i \in DOMAIN s}

Front(s) == SubSeq(s, 1, Len(s) - 1)

Ev(type, card, rating) == [type |-> type, card |-> card, rating |-> rating]

Task(name, card, rating) == [name |-> name, card |-> card, rating |-> rating]

EventTypes(evs) == {evs[i].type : i \in DOMAIN evs}

\* ------------------------------------------------------ worker: texts
\* A text is its first 30 characters and the rest; two of the texts the
\* model speaks share their first 30 characters
Prefixes == {"p", "q"}

Texts == {<<"p", "x">>, <<"p", "y">>, <<"q", "x">>}

\* mark_text_published / on_conversation_item_added: sha256(text[:30])
PrefixHash(text) == text[1]

\* AgentMessagePublisher.get_or_create_message_id: sha256(text), the key
\* of the id cache, distinguishes the texts
TextHash(text) == <<text[1], text[2]>>

NoUtt == [text |-> <<"p", "x">>, origin |-> "none", handler |-> "none",
          tts |-> "none", track |-> "none", id |-> 0, speaking |-> "none"]

\* entrypoint: a connected room, a fresh publisher, no speech yet
WorkerInit ==
    /\ utt = [u \in 1..MaxUtterances |-> NoUtt]
    /\ utt_count = 0
    /\ pending_message_ids = [t \in Texts |-> 0]
    /\ next_ulid = 1
    /\ disconnected = FALSE
    /\ ff_tasks = 0
    /\ published_text_hashes = [h \in Prefixes |-> -1]
    /\ now = 0
    /\ received = [t \in Texts |-> 0]
    /\ agent_published_at = [t \in Texts |-> -1]
    /\ wOp = "init"
    /\ wText = <<"p", "x">>

\* ---------------------------------------------------------- API state
\* the room of the session, the concurrent get_token requests and the
\* concurrent end_session calls the model follows
Rooms == {1}

Requests == {"a", "b"}

EndCallers == {"a", "b"}

IdleRequest == [pc |-> "idle", room |-> 1]

IdleEnd == [pc |-> "idle", k |-> 0, failed |-> 0]

\* no row of the sessions table has this id
NoRow == [state |-> "absent", ended_at |-> None]

\* an empty sessions table; ended_at NULL is None and the clock starts after
EmptyTable == [rows |-> [s \in 1..MaxSessions |-> NoRow], now |-> 1]

\* no transcript yet (Python's None where a Transcript is expected)
NoTranscript == [confidence |-> 0, is_final |-> FALSE, done_marker |-> FALSE,
                 filler |-> FALSE, continuation |-> FALSE]

NoAnalysis == [transcript |-> NoTranscript, silence_duration_ms |-> 0,
               clarification_count |-> 0, status |-> "none",
               should_process |-> FALSE, needs_clarification |-> FALSE]

\* the state a card's run of the voice session graph starts listening with
NewRun == [node |-> "listening", clarification_count |-> 0, requests |-> 0,
           next_action |-> "none", low |-> FALSE, rating |-> 0,
           analysis |-> NoAnalysis]

NoAnswer == [text |-> <<>>, rejected |-> FALSE, checked |-> FALSE]

NoCall == [failure |-> "no_call", response |-> None, turn |-> 0,
           raised |-> "none", rating |-> 0, is_correct |-> FALSE,
           enter_socratic |-> FALSE, feedback |-> "none"]

NoResponse ==
    [status |-> "none", card_id |-> None, next_card |-> None, remaining |-> 0]

\* module import of api/routes/livekit.py, and the Session start_session
\* creates from the cards it fetched
ApiInit ==
    /\ dispatched_rooms = [r \in Rooms |-> -1]
    /\ dispatch_lock = "free"
    /\ token_req = [q \in Requests |-> IdleRequest]
    /\ api_clock = 0
    /\ dispatches = [r \in Rooms |-> <<>>]
    /\ session_cards = [i \in 1..MaxCards |-> i]
    /\ current_index = 0
    /\ rate_response = NoResponse
    /\ end_calls = [c \in EndCallers |-> IdleEnd]
    /\ submit_calls = [r \in 1..MaxRatings |-> 0]
    /\ apiOp = "init"
    /\ services = [evaluated |-> NoCall, validated |-> NoAnswer,
                   graph_run |-> NewRun, sessions_table |-> EmptyTable]

\* ------------------------------------------------- evaluation service
\* An LLM response, reduced to the fields the domain rules read.
\* fluency scores the model draws: one below and one at the "fluent" mark
Fluencies == {2, 3}

\* ratings the model's LLM answers with: one failing, one passing
LLMRatings == {AGAIN, GOOD}

LLMResponses ==
    [rating : LLMRatings, is_correct : BOOLEAN, fluency : Fluencies,
     enter_socratic : BOOLEAN, has_prompt : BOOLEAN]

Evaluation(rating, is_correct, fluency, enter_socratic, prompt) ==
    [rating |-> rating, is_correct |-> is_correct, fluency |-> fluency,
     enter_socratic |-> enter_socratic, prompt |-> prompt]

\* _transform_response without the "at least 3 if fluent" bump
TransformResponseNoBump(response, hints) ==
    LET capped == IF hints > 0 /\ response.rating > 2 THEN HARD
                  ELSE response.rating
        enter == IF response.is_correct THEN FALSE
                 ELSE response.enter_socratic
        prompt == IF ~enter THEN "none"
                  ELSE IF response.has_prompt THEN "llm" ELSE "fallback"
    IN  Evaluation(capped, response.is_correct, response.fluency, enter, prompt)

\* EvaluationService._transform_response
TransformResponse(response, hints) ==
    LET capped == IF hints > 0 /\ response.rating > 2 THEN HARD
                  ELSE response.rating
        rating == IF response.is_correct /\ capped < GOOD
                     /\ response.fluency >= 3
                  THEN GOOD ELSE capped
        enter == IF response.is_correct THEN FALSE
                 ELSE response.enter_socratic
        prompt == IF ~enter THEN "none"
                  ELSE IF response.has_prompt THEN "llm" ELSE "fallback"
    IN  Evaluation(rating, response.is_correct, response.fluency, enter, prompt)

\* EvaluationService.evaluate, except branch, answering Again
LLMErrorResultAgain == Evaluation(AGAIN, TRUE, 2, FALSE, "none")

\* EvaluationService.evaluate, except branch: graceful Hard
LLMErrorResult == Evaluation(HARD, TRUE, 2, FALSE, "none")

\* EvaluationResult.skip_result
SkipResult == Evaluation(AGAIN, FALSE, 1, FALSE, "none")

\* evaluate_node: the hint count handed to the evaluation service
EvaluateNodeHintsUsed == 0

\* EvaluationService.evaluate for one outcome of the LLM call
ServiceEvaluate(outcome, response) ==
    CASE outcome = "skip_phrase" -> SkipResult
      [] outcome = "llm_error"   -> LLMErrorResult
      [] OTHER -> TransformResponse(response, EvaluateNodeHintsUsed)

\* VoiceOrchestrator.evaluate: past the turn limit Socratic mode is overridden
OrchestratorEvaluate(turn_count, outcome, response) ==
    LET e == ServiceEvaluate(outcome, response)
    IN  IF turn_count >= MAX_SOCRATIC_TURNS /\ e.enter_socratic
        THEN [e EXCEPT !.enter_socratic = FALSE, !.prompt = "none"]
        ELSE e

\* --------------------------------------------------- VoiceStateManager
NoEval == [is_correct |-> FALSE, fluency |-> 0]

\* VoiceStateManager.create_initial_state, after handle_init_session
VoiceInit ==
    /\ initial_queue_len \in 1..MaxCards
    /\ current_card = 1
    /\ previous_card = None
    /\ card_queue = [i \in 1..(initial_queue_len - 1) |-> i + 1]
    /\ rating_history = <<>>
    /\ hints_used = 0
    /\ socratic_turn_count = 0
    /\ cards_reviewed = 0
    /\ should_end = FALSE
    /\ current_state = "presenting"
    /\ queued = 0
    /\ inflight = <<>>
    /\ events = <<>>
    /\ fired = <<>>
    /\ lastOp = "init"
    /\ lastEval = NoEval
    /\ hint_taken = FALSE
    /\ rated = FALSE
    /\ consecutive_timeouts = 0
    /\ last_error = "none"

\* VoiceStateManager.advance_to_next_card
AdvanceToNextCard ==
    /\ previous_card' = current_card
    /\ IF card_queue # <<>>
       THEN /\ current_card' = Head(card_queue)
            /\ card_queue' = Tail(card_queue)
            /\ cards_reviewed' = cards_reviewed + 1
            /\ hints_used' = 0
            /\ socratic_turn_count' = 0
            /\ UNCHANGED should_end
       ELSE /\ current_card' = None
            /\ should_end' = TRUE
            /\ UNCHANGED <<card_queue, cards_reviewed, hints_used,
                           socratic_turn_count>>
    /\ rated' = FALSE
    /\ hint_taken' = FALSE

\* VoiceStateManager.record_rating
RecordRatingInState(rating) ==
    /\ Len(rating_history) < MaxHistory
    /\ rating_history' = Append(rating_history, rating)

\* handle_command_node, UNDO: the queue without the current card pushed back
UndoQueueDropCurrent(current, queue) == queue

\* handle_command_node, UNDO: the current card goes back to the queue's head
UndoQueue(current, queue) ==
    IF current # None THEN <<current>> \o queue ELSE queue

\* handle_command_node, SKIP, recording Hard instead of Again
SkipRatingHard == HARD

\* handle_command_node, SKIP: the rating a skip records
SkipRating == AGAIN

\* VoiceStateManager.can_undo
CanUndo == previous_card # None

Outcomes == {"llm_ok", "llm_error"}

\* what VoiceOrchestrator.evaluate can return at each Socratic turn count,
\* over every LLM response and an LLM failure
EvaluationResults ==
    [turn \in 0..(MAX_SOCRATIC_TURNS + 1) |->
        {OrchestratorEvaluate(turn, o, r) : o \in Outcomes, r \in LLMResponses}]

\* ------------------------------------------------------- agent handlers
\* worker.on_data_received, user_text_input / commit_user_turn: an answer is
\* handed to session.generate_reply, whatever else is going on
AnswerReceived ==
    /\ queued < MaxQueued
    /\ queued' = queued + 1
    /\ events' = <<>>
    /\ fired' = <<>>
    /\ lastOp' = "answer_received"
    /\ UNCHANGED <<mgrVars, nodeVars, workerVars, apiVars>>
    /\ lastEval' = NoEval
    /\ UNCHANGED <<current_card, previous_card, card_queue, rating_history,
                   hints_used, socratic_turn_count, cards_reviewed,
                   should_end, current_state, inflight, initial_queue_len,
                   hint_taken, rated>>

\* _evaluate_answer_impl / handle_text_input: punctuation-only answer
RejectAnswer ==
    /\ events' = <<Ev("agent_message", current_card, 0)>>
    /\ fired' = <<>>
    /\ lastOp' = "reject"
    /\ UNCHANGED <<mgrVars, nodeVars, workerVars, apiVars>>
    /\ lastEval' = NoEval
    /\ UNCHANGED <<current_card, previous_card, card_queue, rating_history,
                   hints_used, socratic_turn_count, cards_reviewed,
                   should_end, current_state, queued, inflight,
                   initial_queue_len,
                   hint_taken, rated>>

\* _evaluate_answer_impl, rating branch, with an advance to the next card
\* added after the rating
RateAnswerAndAdvance(card, rating) ==
    /\ RecordRatingInState(rating)
    /\ fired' = <<Task("record_rating", card, rating)>>
    /\ events' = <<Ev("rating_result", card, rating),
                   Ev("agent_message", card, 0)>>
    /\ AdvanceToNextCard
    /\ UNCHANGED <<current_state, initial_queue_len>>

\* _evaluate_answer_impl, rating branch: the rating is sent to the session
\* manager, recorded in the state and published; the card stays
RateAnswer(card, rating) ==
    /\ RecordRatingInState(rating)
    /\ fired' = <<Task("record_rating", card, rating)>>
    /\ events' = <<Ev("rating_result", card, rating),
                   Ev("agent_message", card, 0)>>
    /\ rated' = (rated \/ card = current_card)
    /\ UNCHANGED <<current_card, previous_card, card_queue, hints_used,
                   socratic_turn_count, cards_reviewed, should_end,
                   current_state, initial_queue_len, hint_taken>>

\* _evaluate_answer_impl from the captured card on: nothing without a card,
\* a Socratic prompt, or the rating branch
FinishEvaluation(card, turn, ev) ==
    /\ lastEval' = [is_correct |-> ev.is_correct, fluency |-> ev.fluency]
    /\ IF card = None
       THEN /\ events' = <<>>
            /\ fired' = <<>>
            /\ UNCHANGED <<current_card, previous_card, card_queue,
                           rating_history, hints_used, socratic_turn_count,
                           cards_reviewed, should_end, current_state,
                           initial_queue_len, hint_taken, rated>>
       ELSE IF ev.enter_socratic /\ ev.prompt # "none"
       THEN /\ socratic_turn_count' = turn + 1
            /\ events' = <<Ev("socratic_prompt", card, 0)>>
            /\ fired' = <<>>
            /\ UNCHANGED <<current_card, previous_card, card_queue,
                           rating_history, hints_used, cards_reviewed,
                           should_end, current_state, initial_queue_len,
                           hint_taken, rated>>
       ELSE RateAnswer(card, ev.rating)

\* _evaluate_answer_impl up to the LLM call: the card and the Socratic turn
\* count are captured, then the coroutine awaits the LLM
EvaluateBegin ==
    /\ queued > 0
    /\ inflight = <<>>
    /\ queued' = queued - 1
    /\ inflight' = <<[card |-> current_card, turn |-> socratic_turn_count]>>
    /\ events' = <<>>
    /\ fired' = <<>>
    /\ lastOp' = "evaluate_begin"
    /\ UNCHANGED <<mgrVars, nodeVars, workerVars, apiVars>>
    /\ lastEval' = NoEval
    /\ UNCHANGED <<current_card, previous_card, card_queue, rating_history,
                   hints_used, socratic_turn_count, cards_reviewed,
                   should_end, current_state, initial_queue_len,
                   hint_taken, rated>>

\* _evaluate_answer_impl after the LLM call returned or failed
EvaluateEnd ==
    /\ inflight # <<>>
    /\ inflight' = <<>>
    /\ UNCHANGED queued
    /\ lastOp' = "evaluate"
    /\ UNCHANGED <<mgrVars, nodeVars, workerVars, apiVars>>
    /\ \E ev \in EvaluationResults[inflight[1].turn] :
          FinishEvaluation(inflight[1].card, inflight[1].turn, ev)

\* _evaluate_answer_impl for a transcript holding a skip phrase: the
\* evaluation service answers without an LLM call, so nothing is awaited
EvaluateSkipPhrase ==
    /\ queued > 0
    /\ inflight = <<>>
    /\ queued' = queued - 1
    /\ UNCHANGED inflight
    /\ lastOp' = "evaluate"
    /\ UNCHANGED <<mgrVars, nodeVars, workerVars, apiVars>>
    /\ FinishEvaluation(current_card, socratic_turn_count,
                        OrchestratorEvaluate(socratic_turn_count,
                                             "skip_phrase",
                                             CHOOSE r \in LLMResponses : TRUE))

\* _handle_command, SKIP: handle_command_node records Rating 1 in the state
\* and advances; the agent fires record_rating for the skipped card and
\* publishes the next card, or fires end_session and publishes
\* session_complete
Skip ==
    /\ RecordRatingInState(SkipRating)
    /\ AdvanceToNextCard
    /\ current_state' = IF card_queue # <<>> THEN "presenting" ELSE "ended"
    /\ LET record == IF current_card # None
                     THEN <<Task("record_rating", current_card, AGAIN)>>
                     ELSE <<>>
       IN  IF card_queue # <<>>
           THEN /\ fired' = record
                /\ events' = <<Ev("card", Head(card_queue), 1)>>
           ELSE /\ fired' = record \o <<Task("end_session", None, 0)>>
                /\ events' = <<Ev("session_complete", None, 0)>>
    /\ lastOp' = "skip"
    /\ UNCHANGED <<mgrVars, nodeVars, workerVars, apiVars>>
    /\ lastEval' = NoEval
    /\ UNCHANGED <<queued, inflight, initial_queue_len>>

\* _handle_command, GIVE_UP: Rating 1 fired to the session manager and
\* recorded in the state, rating_result published, the card stays
GiveUp ==
    /\ IF current_card # None
       THEN /\ RecordRatingInState(AGAIN)
            /\ fired' = <<Task("record_rating", current_card, AGAIN)>>
            /\ events' = <<Ev("rating_result", current_card, AGAIN)>>
       ELSE /\ fired' = <<>>
            /\ events' = <<>>
            /\ UNCHANGED rating_history
    /\ lastOp' = "give_up"
    /\ UNCHANGED <<mgrVars, nodeVars, workerVars, apiVars>>
    /\ lastEval' = NoEval
    /\ UNCHANGED <<current_card, previous_card, card_queue, hints_used,
                   socratic_turn_count, cards_reviewed, should_end,
                   current_state, queued, inflight, initial_queue_len,
                   hint_taken, rated>>

\* _handle_command, REPEAT
Repeat ==
    /\ current_state' = "presenting"
    /\ events' = <<>>
    /\ fired' = <<>>
    /\ lastOp' = "repeat"
    /\ UNCHANGED <<mgrVars, nodeVars, workerVars, apiVars>>
    /\ lastEval' = NoEval
    /\ UNCHANGED <<current_card, previous_card, card_queue, rating_history,
                   hints_used, socratic_turn_count, cards_reviewed,
                   should_end, queued, inflight, initial_queue_len,
                   hint_taken, rated>>

\* VoiceOrchestrator.get_hint_level, after increment_hints
HintLevel(hints) == hints - 1

\* Hint with the reveal published one level too late
HintRevealLate ==
    /\ current_state' = "socratic"
    /\ socratic_turn_count' = 1
    /\ IF current_card # None
       THEN /\ hints_used < MaxHints
            /\ hints_used' = hints_used + 1
            /\ hint_taken' = TRUE
            /\ events' = IF HintLevel(hints_used + 1) >= 3
                         THEN <<Ev("reveal_answer", current_card, 0),
                                Ev("hint", current_card,
                                   HintLevel(hints_used + 1))>>
                         ELSE <<Ev("hint", current_card,
                                   HintLevel(hints_used + 1))>>
       ELSE /\ events' = <<>>
            /\ UNCHANGED <<hints_used, hint_taken>>
    /\ fired' = <<>>
    /\ lastOp' = "hint"
    /\ UNCHANGED <<mgrVars, nodeVars, workerVars, apiVars>>
    /\ lastEval' = NoEval
    /\ UNCHANGED <<current_card, previous_card, card_queue, rating_history,
                   cards_reviewed, should_end, queued, inflight,
                   initial_queue_len, rated>>

\* _handle_command, HINT, and worker.handle_hint: the node counts the hint as
\* a Socratic turn; with a card the hint count goes up, reveal_answer is
\* published from level 2 on, then the hint text
Hint ==
    /\ current_state' = "socratic"
    /\ socratic_turn_count' = 1
    /\ IF current_card # None
       THEN /\ hints_used < MaxHints
            /\ hints_used' = hints_used + 1
            /\ hint_taken' = TRUE
            /\ events' = IF HintLevel(hints_used + 1) >= 2
                         THEN <<Ev("reveal_answer", current_card, 0),
                                Ev("hint", current_card,
                                   HintLevel(hints_used + 1))>>
                         ELSE <<Ev("hint", current_card,
                                   HintLevel(hints_used + 1))>>
       ELSE /\ events' = <<>>
            /\ UNCHANGED <<hints_used, hint_taken>>
    /\ fired' = <<>>
    /\ lastOp' = "hint"
    /\ UNCHANGED <<mgrVars, nodeVars, workerVars, apiVars>>
    /\ lastEval' = NoEval
    /\ UNCHANGED <<current_card, previous_card, card_queue, rating_history,
                   cards_reviewed, should_end, queued, inflight,
                   initial_queue_len, rated>>

\* _handle_command, UNDO, honoured: handle_command_node restores the
\* previous card, requeues the current one and drops the last rating
Undo ==
    /\ CanUndo
    /\ current_card' = previous_card
    /\ card_queue' = UndoQueue(current_card, card_queue)
    /\ previous_card' = None
    /\ rating_history' = IF rating_history # <<>> THEN Front(rating_history)
                         ELSE rating_history
    /\ cards_reviewed' = IF cards_reviewed > 0 THEN cards_reviewed - 1 ELSE 0
    /\ current_state' = "presenting"
    /\ rated' = FALSE
    /\ hint_taken' = FALSE
    /\ events' = <<Ev("card", previous_card, 0)>>
    /\ fired' = <<>>
    /\ lastOp' = "undo"
    /\ UNCHANGED <<mgrVars, nodeVars, workerVars, apiVars>>
    /\ lastEval' = NoEval
    /\ UNCHANGED <<hints_used, socratic_turn_count, should_end, queued,
                   inflight, initial_queue_len>>

\* _handle_command, UNDO with nothing to undo, STATUS, or a command without
\* a handler: a reply, no change of state
ReplyOnly ==
    /\ events' = <<>>
    /\ fired' = <<>>
    /\ lastOp' = "reply"
    /\ UNCHANGED <<mgrVars, nodeVars, workerVars, apiVars>>
    /\ lastEval' = NoEval
    /\ UNCHANGED <<current_card, previous_card, card_queue, rating_history,
                   hints_used, socratic_turn_count, cards_reviewed,
                   should_end, current_state, queued, inflight,
                   initial_queue_len,
                   hint_taken, rated>>

\* _handle_command, STOP: _end_session_impl awaits the manager's end_session
Stop ==
    /\ events' = <<>>
    /\ fired' = <<Task("end_session", None, 0)>>
    /\ lastOp' = "stop"
    /\ UNCHANGED <<mgrVars, nodeVars, workerVars, apiVars>>
    /\ lastEval' = NoEval
    /\ UNCHANGED <<current_card, previous_card, card_queue, rating_history,
                   hints_used, socratic_turn_count, cards_reviewed,
                   should_end, current_state, queued, inflight,
                   initial_queue_len,
                   hint_taken, rated>>

\* what NEXT and next_card publish and fire once the card has advanced
AfterAdvance(last_rating) ==
    IF card_queue # <<>>
    THEN /\ events' = <<Ev("card", Head(card_queue), last_rating)>>
         /\ fired' = <<>>
    ELSE /\ events' = <<Ev("session_complete", None, 0)>>
         /\ fired' = <<Task("end_session", None, 0)>>

\* _handle_command, NEXT
NextCommand ==
    /\ AdvanceToNextCard
    /\ AfterAdvance(0)
    /\ lastOp' = "next"
    /\ UNCHANGED <<mgrVars, nodeVars, workerVars, apiVars>>
    /\ lastEval' = NoEval
    /\ UNCHANGED <<rating_history, current_state, queued,
                   inflight, initial_queue_len>>

\* next_card, the function tool: a last_rating (0 for none) is recorded in
\* the state when the queue was empty
NextCardTool(last_rating) ==
    /\ AdvanceToNextCard
    /\ AfterAdvance(last_rating)
    /\ IF card_queue = <<>> /\ last_rating # 0
       THEN RecordRatingInState(last_rating)
       ELSE UNCHANGED rating_history
    /\ lastOp' = "next_card"
    /\ UNCHANGED <<mgrVars, nodeVars, workerVars, apiVars>>
    /\ lastEval' = NoEval
    /\ UNCHANGED <<current_state, queued, inflight, initial_queue_len>>


\* ------------------------------------------------------ session manager
\* the two callers whose start_session calls may overlap
Callers == {"a", "b"}

CardIds == {1}

\* the ratings record_rating is called with
RecordedRatings == {AGAIN, GOOD}

NoSubmit == [card_id |-> None, ease |-> 0, session_id |-> None,
             via |-> "none", rid |-> 0, outcome |-> "none"]

\* how a submit_review call ends: it returns, or raises an error that
\* SyncOrchestrator._is_transient_error calls transient, or another one
SubmitOutcomes == {"ok", "transient", "permanent"}

IdleStarter == [pc |-> "idle", session |-> None, k |-> 0, todo |-> <<>>]

IdleEnder == [pc |-> "idle", session |-> None, k |-> 0, failed |-> 0]

\* SessionManager.__init__ with an empty recovery store
ManagerInit ==
    /\ active_session = None
    /\ session_count = 0
    /\ session_state = [s \in 1..MaxSessions |-> "idle"]
    /\ pending_ratings = [s \in 1..MaxSessions |-> <<>>]
    /\ timed_out = FALSE
    /\ pending_reviews = <<>>
    /\ save_queue = <<>>
    /\ rating_count = 0
    /\ submitted_ok = {}
    /\ starters = [c \in Callers |-> IdleStarter]
    /\ ender = IdleEnder
    /\ mgrOp = "init"
    /\ last_submit = NoSubmit

\* ------------------------------------------ the voice agent on its own
\* next_card's last_rating argument: none (0) or a rating
LastRatings == {0, GOOD}

\* the voice agent taken alone: the session manager, the worker's speech
\* handlers and the API routes are not constructed, they take no step and
\* their variables hold None
NotConstructed ==
    /\ active_session = None
    /\ session_count = None
    /\ session_state = None
    /\ pending_ratings = None
    /\ timed_out = None
    /\ pending_reviews = None
    /\ save_queue = None
    /\ rating_count = None
    /\ submitted_ok = None
    /\ starters = None
    /\ ender = None
    /\ mgrOp = None
    /\ last_submit = None
    /\ utt = None
    /\ utt_count = None
    /\ pending_message_ids = None
    /\ next_ulid = None
    /\ disconnected = None
    /\ ff_tasks = None
    /\ published_text_hashes = None
    /\ now = None
    /\ received = None
    /\ agent_published_at = None
    /\ wOp = None
    /\ wText = None
    /\ dispatched_rooms = None
    /\ dispatch_lock = None
    /\ token_req = None
    /\ api_clock = None
    /\ dispatches = None
    /\ session_cards = None
    /\ current_index = None
    /\ rate_response = None
    /\ end_calls = None
    /\ submit_calls = None
    /\ apiOp = None
    /\ services = None

Init == VoiceInit /\ NotConstructed

Next ==
    \/ AnswerReceived
    \/ RejectAnswer
    \/ EvaluateBegin
    \/ EvaluateEnd
    \/ EvaluateSkipPhrase
    \/ Skip
    \/ GiveUp
    \/ Repeat
    \/ Hint
    \/ Undo
    \/ ReplyOnly
    \/ Stop
    \/ NextCommand
    \/ \E r \in LastRatings : NextCardTool(r)

Spec == Init /\ [][Next]_vars

TypeOK ==
    /\ current_card \in 0..MaxCards
    /\ previous_card \in 0..MaxCards
    /\ Len(rating_history) <= MaxHistory
    /\ hints_used \in 0..MaxHints

\* --------------------------------------------- session manager, actions
\* Session.transition_to: the valid_transitions table
ValidTransitions(state) ==
    CASE state = "idle" -> {"syncing_start"}
      [] state = "syncing_start" -> {"active", "degraded"}
      [] state = "active" -> {"syncing_end", "degraded"}
      [] state = "degraded" -> {"active", "syncing_end", "complete"}
      [] state = "syncing_end" -> {"complete", "degraded"}
      [] OTHER -> {}

\* the first rating from index k on that is not synced: the loops of
\* end_session and _end_timed_out_session skip synced ratings
NextUnsynced(sid, k) ==
    LET rest == {i \in k..Len(pending_ratings[sid]) :
                    ~pending_ratings[sid][i].synced}
    IN  IF rest = {} THEN Len(pending_ratings[sid]) + 1
        ELSE CHOOSE i \in rest : \A j \in rest : i <= j

\* a row of the pending_reviews table, with the number of the rating it
\* holds
Row(card_id, ease, session_id, rid) ==
    [card_id |-> card_id, ease |-> ease, session_id |-> session_id,
     synced |-> FALSE, rid |-> rid]

\* the loop iteration with a synced rating taken out of pending_ratings
\* instead of being marked
SyncRatingRemoving(sid, k, outcome, via) ==
    LET r == pending_ratings[sid][k]
    IN  /\ last_submit' = [card_id |-> r.card_id, ease |-> r.rating,
                           session_id |-> sid, via |-> via, rid |-> r.rid,
                           outcome |-> outcome]
        /\ IF outcome = "ok"
           THEN /\ pending_ratings' =
                       [pending_ratings EXCEPT ![sid] =
                           SubSeq(@, 1, k - 1) \o SubSeq(@, k + 1, Len(@))]
                /\ submitted_ok' = submitted_ok \cup {r.rid}
                /\ UNCHANGED pending_reviews
           ELSE /\ Len(pending_reviews) < MaxRows
                /\ pending_reviews' =
                       Append(pending_reviews,
                              Row(r.card_id, r.rating, sid, r.rid))
                /\ UNCHANGED <<pending_ratings, submitted_ok>>

\* one iteration of the loop of end_session / _end_timed_out_session over
\* an unsynced rating: submit_review, then synced = True in memory on
\* success, or save_review of a new row on failure
SyncRating(sid, k, outcome, via) ==
    LET r == pending_ratings[sid][k]
    IN  /\ last_submit' = [card_id |-> r.card_id, ease |-> r.rating,
                           session_id |-> sid, via |-> via, rid |-> r.rid,
                           outcome |-> outcome]
        /\ IF outcome = "ok"
           THEN /\ pending_ratings' =
                       [pending_ratings EXCEPT ![sid][k].synced = TRUE]
                /\ submitted_ok' = submitted_ok \cup {r.rid}
                /\ UNCHANGED pending_reviews
           ELSE /\ Len(pending_reviews) < MaxRows
                /\ pending_reviews' =
                       Append(pending_reviews,
                              Row(r.card_id, r.rating, sid, r.rid))
                /\ UNCHANGED <<pending_ratings, submitted_ok>>

\* the Session object of an ended session is garbage once no call in
\* progress holds it (users: the calls still holding it): its ratings
\* leave the state
Release(sid, users) ==
    IF users = 0
    THEN [pending_ratings EXCEPT ![sid] = <<>>]
    ELSE pending_ratings

\* the start_session calls that have passed the check and not yet returned
Starting == {c \in Callers : starters[c].pc # "idle"}

\* start_session up to its first await: SessionConflictError when a
\* session is active and not timed out, _end_timed_out_session when it is
\* timed out, otherwise on to _recover_pending_ratings
StartCheck(c) ==
    /\ starters[c].pc = "idle"
    /\ session_count + Cardinality(Starting) < MaxSessions
    /\ IF active_session # None /\ ~timed_out
       THEN /\ mgrOp' = "conflict"
            /\ UNCHANGED <<starters, session_state>>
       ELSE IF active_session # None
       THEN /\ mgrOp' = "start_check"
            /\ session_state' =
                   [session_state EXCEPT ![active_session] = "degraded"]
            /\ starters' = [starters EXCEPT ![c] =
                   [pc |-> "timed_out_sync", session |-> active_session,
                    k |-> 1, todo |-> <<>>]]
       ELSE /\ mgrOp' = "start_check"
            /\ starters' = [starters EXCEPT ![c].pc = "get_pending"]
            /\ UNCHANGED session_state
    /\ last_submit' = NoSubmit
    /\ UNCHANGED <<active_session, session_count, pending_ratings,
                   timed_out, pending_reviews, save_queue, rating_count,
                   submitted_ok, ender>>
    /\ UNCHANGED <<voiceVars, nodeVars, workerVars, apiVars>>

\* _end_timed_out_session: one rating of the timed-out session
TimedOutSubmit(c, outcome) ==
    LET sid == starters[c].session
        k == NextUnsynced(sid, starters[c].k)
    IN  /\ starters[c].pc = "timed_out_sync"
        /\ k <= Len(pending_ratings[sid])
        /\ SyncRating(sid, k, outcome, "timed_out")
        /\ starters' = [starters EXCEPT ![c].k = k + 1]
        /\ mgrOp' = "submit"
        /\ UNCHANGED <<active_session, session_count, session_state,
                       timed_out, save_queue, rating_count, ender>>
        /\ UNCHANGED <<voiceVars, nodeVars, workerVars, apiVars>>

\* _end_timed_out_session after its loop: the end is persisted and
\* _active_session cleared
TimedOutFinish(c) ==
    LET sid == starters[c].session
    IN  /\ starters[c].pc = "timed_out_sync"
        /\ NextUnsynced(sid, starters[c].k) > Len(pending_ratings[sid])
        /\ active_session' = None
        /\ timed_out' = FALSE
        /\ starters' = [starters EXCEPT ![c] =
               [pc |-> "get_pending", session |-> None, k |-> 0,
                todo |-> <<>>]]
        /\ pending_ratings' =
               Release(sid, Cardinality({d \in Callers \ {c} :
                                           starters[d].session = sid})
                            + (IF ender.session = sid THEN 1 ELSE 0))
        /\ mgrOp' = "timed_out_end"
        /\ last_submit' = NoSubmit
        /\ UNCHANGED <<session_count, session_state, pending_reviews,
                       save_queue, rating_count, submitted_ok, ender>>
        /\ UNCHANGED <<voiceVars, nodeVars, workerVars, apiVars>>

\* RecoveryStore.get_pending_reviews: the ids of the rows with synced_at
\* NULL, oldest first
GetPendingReviews ==
    LET ids == {i \in DOMAIN pending_reviews : ~pending_reviews[i].synced}
        F[n \in 0..Len(pending_reviews)] ==
            IF n = 0 THEN <<>>
            ELSE IF n \in ids THEN Append(F[n - 1], n) ELSE F[n - 1]
    IN  F[Len(pending_reviews)]

\* _recover_pending_ratings: the pending rows are read
StartGetPending(c) ==
    /\ starters[c].pc = "get_pending"
    /\ starters' = [starters EXCEPT ![c].pc = "recover",
                                    ![c].todo = GetPendingReviews]
    /\ mgrOp' = "get_pending"
    /\ last_submit' = NoSubmit
    /\ UNCHANGED <<active_session, session_count, session_state,
                   pending_ratings, timed_out, pending_reviews, save_queue,
                   rating_count, submitted_ok, ender>>
    /\ UNCHANGED <<voiceVars, nodeVars, workerVars, apiVars>>

\* _recover_pending_ratings: submit_review of the next pending row; on
\* failure increment_retry and on to the next row
RecoverSubmit(c, outcome) ==
    LET id == Head(starters[c].todo)
        row == pending_reviews[id]
    IN  /\ starters[c].pc = "recover"
        /\ starters[c].todo # <<>>
        /\ last_submit' = [card_id |-> row.card_id, ease |-> row.ease,
                           session_id |-> row.session_id,
                           via |-> "recover", rid |-> row.rid,
                           outcome |-> outcome]
        /\ IF outcome = "ok"
           THEN /\ submitted_ok' = submitted_ok \cup {row.rid}
                /\ starters' = [starters EXCEPT ![c].pc = "mark_synced"]
           ELSE /\ starters' = [starters EXCEPT ![c].todo = Tail(@)]
                /\ UNCHANGED submitted_ok
        /\ mgrOp' = "submit"
        /\ UNCHANGED <<active_session, session_count, session_state,
                       pending_ratings, timed_out, pending_reviews,
                       save_queue, rating_count, ender>>
        /\ UNCHANGED <<voiceVars, nodeVars, workerVars, apiVars>>

\* _recover_pending_ratings: RecoveryStore.mark_synced after a successful
\* submit_review
RecoverMarkSynced(c) ==
    LET id == Head(starters[c].todo)
    IN  /\ starters[c].pc = "mark_synced"
        /\ pending_reviews' = [pending_reviews EXCEPT ![id].synced = TRUE]
        /\ starters' = [starters EXCEPT ![c].pc = "recover",
                                        ![c].todo = Tail(@)]
        /\ mgrOp' = "mark_synced"
        /\ last_submit' = NoSubmit
        /\ UNCHANGED <<active_session, session_count, session_state,
                       pending_ratings, timed_out, save_queue, rating_count,
                       submitted_ok, ender>>
        /\ UNCHANGED <<voiceVars, nodeVars, workerVars, apiVars>>

\* start_session after the recovery: the cards are fetched, the session is
\* created ACTIVE and saved, and only then assigned to _active_session
StartCommit(c) ==
    /\ starters[c].pc = "recover"
    /\ starters[c].todo = <<>>
    /\ session_count < MaxSessions
    /\ session_count' = session_count + 1
    /\ session_state' = [session_state EXCEPT ![session_count + 1] = "active"]
    /\ active_session' = session_count + 1
    /\ timed_out' = FALSE
    /\ starters' = [starters EXCEPT ![c] = IdleStarter]
    /\ mgrOp' = "start_ok"
    /\ last_submit' = NoSubmit
    /\ UNCHANGED <<pending_ratings, pending_reviews, save_queue,
                   rating_count, submitted_ok, ender>>
    /\ UNCHANGED <<voiceVars, nodeVars, workerVars, apiVars>>

\* restore_session: a session is created and assigned to _active_session,
\* whatever it held
RestoreSession ==
    /\ session_count + Cardinality(Starting) < MaxSessions
    /\ session_count' = session_count + 1
    /\ session_state' = [session_state EXCEPT ![session_count + 1] = "active"]
    /\ active_session' = session_count + 1
    /\ timed_out' = FALSE
    /\ mgrOp' = "restore"
    /\ last_submit' = NoSubmit
    /\ UNCHANGED <<pending_ratings, pending_reviews, save_queue,
                   rating_count, submitted_ok, starters, ender>>
    /\ UNCHANGED <<voiceVars, nodeVars, workerVars, apiVars>>

\* record_rating up to its await: _get_session_or_raise (which raises
\* SessionNotFoundError or, for the active session timed out,
\* SessionExpiredError, and changes nothing), then the rating is appended
\* to pending_ratings and save_review is called
RecordRating(sid, card_id, rating) ==
    /\ rating_count < MaxRatings
    /\ IF active_session = sid /\ ~timed_out
       THEN /\ rating_count' = rating_count + 1
            /\ pending_ratings' =
                   [pending_ratings EXCEPT ![sid] =
                       Append(@, [card_id |-> card_id, rating |-> rating,
                                  synced |-> FALSE,
                                  rid |-> rating_count + 1])]
            /\ save_queue' =
                   Append(save_queue,
                          Row(card_id, rating, sid, rating_count + 1))
            /\ mgrOp' = "record_rating"
       ELSE /\ mgrOp' = IF active_session = sid
                         THEN "record_rating_expired"
                         ELSE "record_rating_not_found"
            /\ UNCHANGED <<pending_ratings, save_queue, rating_count>>
    /\ last_submit' = NoSubmit
    /\ UNCHANGED <<active_session, session_count, session_state, timed_out,
                   pending_reviews, submitted_ok, starters, ender>>
    /\ UNCHANGED <<voiceVars, nodeVars, workerVars, apiVars>>

\* RecoveryStore.save_review called by record_rating: the row is inserted
\* once the store's lock and its thread get to it
SaveReviewWrite ==
    /\ save_queue # <<>>
    /\ Len(pending_reviews) < MaxRows
    /\ pending_reviews' = Append(pending_reviews, Head(save_queue))
    /\ save_queue' = Tail(save_queue)
    /\ mgrOp' = "save_review"
    /\ last_submit' = NoSubmit
    /\ UNCHANGED <<active_session, session_count, session_state,
                   pending_ratings, timed_out, rating_count, submitted_ok,
                   starters, ender>>
    /\ UNCHANGED <<voiceVars, nodeVars, workerVars, apiVars>>

\* end_session up to its loop: SessionNotFoundError unless the session is
\* the active one, then transition_to(SYNCING_END) with ValueError
\* suppressed
EndBegin(sid) ==
    /\ ender.pc = "idle"
    /\ IF active_session = sid
       THEN /\ ender' = [pc |-> "sync", session |-> sid, k |-> 1,
                         failed |-> 0]
            /\ IF "syncing_end" \in ValidTransitions(session_state[sid])
               THEN /\ session_state' =
                           [session_state EXCEPT ![sid] = "syncing_end"]
                    /\ timed_out' = FALSE
               ELSE UNCHANGED <<session_state, timed_out>>
            /\ mgrOp' = "end_begin"
       ELSE /\ mgrOp' = "end_not_found"
            /\ UNCHANGED <<ender, session_state, timed_out>>
    /\ last_submit' = NoSubmit
    /\ UNCHANGED <<active_session, session_count, pending_ratings,
                   pending_reviews, save_queue, rating_count, submitted_ok,
                   starters>>
    /\ UNCHANGED <<voiceVars, nodeVars, workerVars, apiVars>>

\* end_session: one unsynced rating of the loop
EndSubmit(outcome) ==
    LET sid == ender.session
        k == NextUnsynced(sid, ender.k)
    IN  /\ ender.pc = "sync"
        /\ k <= Len(pending_ratings[sid])
        /\ SyncRating(sid, k, outcome, "end_session")
        /\ ender' = [ender EXCEPT !.k = k + 1,
                                  !.failed = IF outcome = "ok" THEN @ ELSE 1]
        /\ mgrOp' = "submit"
        /\ UNCHANGED <<active_session, session_count, session_state,
                       timed_out, save_queue, rating_count, starters>>
        /\ UNCHANGED <<voiceVars, nodeVars, workerVars, apiVars>>

\* end_session after its loop: DEGRADED when a submission failed, COMPLETE
\* otherwise, the end persisted, _active_session cleared
EndFinish ==
    LET sid == ender.session
    IN  /\ ender.pc = "sync"
        /\ NextUnsynced(sid, ender.k) > Len(pending_ratings[sid])
        /\ session_state' =
               [session_state EXCEPT ![sid] =
                   IF ender.failed > 0 THEN "degraded" ELSE "complete"]
        /\ active_session' = None
        /\ ender' = IdleEnder
        /\ pending_ratings' =
               Release(sid, Cardinality({c \in Callers :
                                           starters[c].session = sid}))
        /\ mgrOp' = "end_session"
        /\ last_submit' = NoSubmit
        /\ UNCHANGED <<session_count, timed_out, pending_reviews,
                       save_queue, rating_count, submitted_ok, starters>>
        /\ UNCHANGED <<voiceVars, nodeVars, workerVars, apiVars>>

\* the active session's last activity gets older than the timeout
Tick ==
    /\ active_session # None
    /\ ~timed_out
    /\ timed_out' = TRUE
    /\ mgrOp' = "tick"
    /\ last_submit' = NoSubmit
    /\ UNCHANGED <<active_session, session_count, session_state,
                   pending_ratings, pending_reviews, save_queue,
                   rating_count, submitted_ok, starters, ender>>
    /\ UNCHANGED <<voiceVars, nodeVars, workerVars, apiVars>>

\* the session manager on its own, the voice state left as constructed
InitManager ==
    /\ VoiceInit
    /\ WorkerInit
    /\ ApiInit
    /\ initial_queue_len = 1
    /\ ManagerInit

NextManager ==
    \/ \E c \in Callers : StartCheck(c)
    \/ \E c \in Callers, o \in SubmitOutcomes : TimedOutSubmit(c, o)
    \/ \E c \in Callers : TimedOutFinish(c)
    \/ \E c \in Callers : StartGetPending(c)
    \/ \E c \in Callers, o \in SubmitOutcomes : RecoverSubmit(c, o)
    \/ \E c \in Callers : RecoverMarkSynced(c)
    \/ \E c \in Callers : StartCommit(c)
    \/ RestoreSession
    \/ \E sid \in 1..MaxSessions, card_id \in CardIds,
          rating \in RecordedRatings : RecordRating(sid, card_id, rating)
    \/ SaveReviewWrite
    \/ \E sid \in 1..MaxSessions : EndBegin(sid)
    \/ \E o \in SubmitOutcomes : EndSubmit(o)
    \/ EndFinish
    \/ Tick

SpecManager == InitManager /\ [][NextManager]_vars

TypeOKManager ==
    /\ active_session \in 0..MaxSessions
    /\ session_count \in 0..MaxSessions
    /\ Len(pending_reviews) <= MaxRows
    /\ rating_count \in 0..MaxRatings

\* ------------------------------------------- the orchestrator's graph
\* The LangGraph nodes timeout and evaluate, each as the update the graph
\* merges into the VoiceState, beside the agent's command handlers.
MAX_CONSECUTIVE_TIMEOUTS == 3

\* EvaluationResult.timeout_result, as the ghost of the last evaluation
TimeoutEval == [is_correct |-> FALSE, fluency |-> 1]

\* timeout_node: the counter goes up; at the limit the voice state is ended
\* with last_error set, below it the timeout counts as "don't know"
TimeoutNode ==
    /\ consecutive_timeouts < MaxTimeouts
    /\ consecutive_timeouts' = consecutive_timeouts + 1
    /\ IF consecutive_timeouts + 1 >= MAX_CONSECUTIVE_TIMEOUTS
       THEN /\ current_state' = "ended"
            /\ should_end' = TRUE
            /\ last_error' = "timeouts"
            /\ lastEval' = NoEval
       ELSE /\ current_state' = "feedback"
            /\ lastEval' = TimeoutEval
            /\ UNCHANGED <<should_end, last_error>>
    /\ events' = <<>>
    /\ fired' = <<>>
    /\ lastOp' = "timeout"
    /\ UNCHANGED <<mgrVars, workerVars, apiVars>>
    /\ UNCHANGED <<current_card, previous_card, card_queue, rating_history,
                   hints_used, socratic_turn_count, cards_reviewed, queued,
                   inflight, initial_queue_len, hint_taken, rated>>

\* evaluate_node as a node of the graph: without a card the state is ended;
\* with one the evaluation is stored and the timeout counter and last_error
\* are reset
GraphEvaluateNode ==
    /\ IF current_card = None
       THEN /\ current_state' = "ended"
            /\ should_end' = TRUE
            /\ lastEval' = NoEval
            /\ UNCHANGED nodeVars
       ELSE \E r \in LLMResponses :
               LET e == ServiceEvaluate("llm_ok", r)
               IN  /\ current_state' = IF e.enter_socratic THEN "socratic"
                                       ELSE "feedback"
                   /\ lastEval' = [is_correct |-> e.is_correct,
                                   fluency |-> e.fluency]
                   /\ consecutive_timeouts' = 0
                   /\ last_error' = "none"
                   /\ UNCHANGED should_end
    /\ events' = <<>>
    /\ fired' = <<>>
    /\ lastOp' = "evaluate_node"
    /\ UNCHANGED <<mgrVars, workerVars, apiVars>>
    /\ UNCHANGED <<current_card, previous_card, card_queue, rating_history,
                   hints_used, socratic_turn_count, cards_reviewed, queued,
                   inflight, initial_queue_len, hint_taken, rated>>

NextGraph ==
    \/ TimeoutNode
    \/ GraphEvaluateNode
    \/ Skip
    \/ GiveUp
    \/ Repeat
    \/ Hint
    \/ Undo
    \/ ReplyOnly
    \/ Stop
    \/ NextCommand

SpecGraph == Init /\ [][NextGraph]_vars

TypeOKGraph ==
    /\ consecutive_timeouts \in 0..MaxTimeouts
    /\ last_error \in {"none", "timeouts"}

\* ------------------------------------------------- properties of Spec
\* the events of one type among those the last handler published
EventsOf(type) == {events[i] : i \in {j \in DOMAIN events : events[j].type = type}}

\* C1: the rating history never holds more ratings than the session had
\* cards at its start (so that no card is rated twice)
C1_RatingHistoryBounded == Len(rating_history) <= initial_queue_len

\* C2: when a hint was taken on the current card and the user moves on
\* right after an answer to it was rated, that rating, the last recorded for
\* the card, is at most 2 (Hard)
C2_HintCapsRating ==
    [][(/\ hint_taken
        /\ lastOp = "evaluate"
        /\ lastOp' \in {"next", "next_card"}
        /\ rating_history' = rating_history)
       => \A e \in EventsOf("rating_result") :
             e.card = current_card => e.rating <= HARD]_vars

\* C3 as stated: an evaluation with is_correct = true publishes a
\* rating_result of at least 3 and no Socratic prompt
C3_CorrectRatedGood ==
    (lastOp = "evaluate" /\ lastEval.is_correct)
    => /\ EventsOf("socratic_prompt") = {}
       /\ \A e \in EventsOf("rating_result") : e.rating >= GOOD

\* C3: an evaluation with is_correct = true emits no Socratic prompt, and
\* publishes a rating_result of at least 3 when its fluency score is at
\* least 3
C3_CorrectFluentRatedGood ==
    (lastOp = "evaluate" /\ lastEval.is_correct)
    => /\ EventsOf("socratic_prompt") = {}
       /\ lastEval.fluency >= 3
          => \A e \in EventsOf("rating_result") : e.rating >= GOOD

C3_Witness ==
    /\ lastOp = "evaluate"
    /\ lastEval.is_correct
    /\ lastEval.fluency >= 3
    /\ \E e \in EventsOf("rating_result") : e.rating = GOOD

\* C7: an answer that arrives while an evaluation is in flight is rejected
\* with the "I didn't catch that" message and is not queued for evaluation
C7_AnswerDuringEvaluationRejected ==
    [][(inflight # <<>> /\ lastOp' = "answer_received")
       => /\ queued' = queued
          /\ EventTypes(events') = {"agent_message"}]_vars

C10_StaysUntilNextOrSkip ==
    [][/\ lastOp' = "evaluate" => current_card' = current_card
       /\ (rated /\ current_card' # current_card)
          => lastOp' \in {"next", "next_card", "skip"}]_vars

\* C10: rating an answer leaves the current card in place, and once an
\* answer to the current card has been rated the current card changes only
\* by an explicit next, skip or undo
C10_StaysUntilNextSkipOrUndo ==
    [][/\ lastOp' = "evaluate" => current_card' = current_card
       /\ (rated /\ current_card' # current_card)
          => lastOp' \in {"next", "next_card", "skip", "undo"}]_vars

C10_Witness ==
    /\ rated
    /\ lastOp = "evaluate"
    /\ EventsOf("rating_result") # {}
    /\ card_queue # <<>>

\* C11: a next received while no card of the session has been rated yet
\* (so the current card is still being presented) does not advance the card.
C11_NextOnlyAfterRating ==
    [][(lastOp' = "next" /\ rating_history = <<>> /\ ~rated)
       => current_card' = current_card]_vars

C21_HintCountPerCard ==
    [][(lastOp' = "hint" /\ current_card # None /\ ~hint_taken)
       => "reveal_answer" \notin EventTypes(events')]_vars

\* C22: socratic_turn_count never exceeds MAX_SOCRATIC_TURNS, a Socratic
\* prompt is emitted only while the count is below the maximum, and the
\* count counts the prompts of the current card (it is lowered only when
\* another card becomes current), so that no card gets more than
\* MAX_SOCRATIC_TURNS prompts.
C22_SocraticTurnsBounded ==
    [][/\ socratic_turn_count' <= MAX_SOCRATIC_TURNS
       /\ "socratic_prompt" \in EventTypes(events')
          => socratic_turn_count < MAX_SOCRATIC_TURNS
       /\ socratic_turn_count' < socratic_turn_count
          => current_card' # current_card]_vars

\* ------------------------------------------- properties of SpecGraph
\* C12: the timeout that brings the count of consecutive timeouts to three
\* ends the voice session with a message and has the session ended at the
\* session manager (where a session becomes DEGRADED).
C12_ThreeTimeoutsEndDegraded ==
    [][(lastOp' = "timeout"
        /\ consecutive_timeouts' >= MAX_CONSECUTIVE_TIMEOUTS)
       => /\ current_state' = "ended"
          /\ last_error' # "none"
          /\ \E i \in DOMAIN fired' : fired'[i].name = "end_session"]_vars

\* C13: every event that is not a timeout leaves consecutive_timeouts at 0.
C13_ActivityResetsTimeouts ==
    [][lastOp' # "timeout" => consecutive_timeouts' = 0]_vars

\* C18: whenever an evaluated answer, a skip or a give_up appends a rating
\* to rating_history, record_rating (which writes the pending_reviews row)
\* is called for a card with that same rating.
C18_RecordedRatingsGetRows ==
    [][(lastOp' \in {"evaluate", "skip", "give_up"}
        /\ Len(rating_history') = Len(rating_history) + 1)
       => \E i \in DOMAIN fired' :
             /\ fired'[i].name = "record_rating"
             /\ fired'[i].card # None
             /\ fired'[i].rating = rating_history'[Len(rating_history')]]_vars

\* ------------------------------------------ properties of SpecManager
\* C4: a start_session call succeeds only when no session is active at the
\* moment it installs its own, so that two calls, overlapping or not, never
\* both succeed without an end_session in between
C4_StartOnlyWhenNoneActive ==
    [][mgrOp' = "start_ok" => active_session = None]_vars

\* C5: every submit_review call is preceded by the write of a
\* pending_reviews row for the same card id, ease and session
C5_SubmitPrecededByRow ==
    [][mgrOp' = "submit"
       => \E i \in DOMAIN pending_reviews :
             /\ pending_reviews[i].card_id = last_submit'.card_id
             /\ pending_reviews[i].ease = last_submit'.ease
             /\ pending_reviews[i].session_id = last_submit'.session_id]_vars

\* C6: a rating whose submission has succeeded, at session end or in a
\* replay, is never submitted again by a recovery replay
C6_NoReplayAfterSuccess ==
    [][(mgrOp' = "submit" /\ last_submit'.via = "recover")
       => last_submit'.rid \notin submitted_ok]_vars

\* C14: a call on the active session made after its inactivity timeout
\* fails with SessionExpired, and the session is then DEGRADED and no
\* longer the active session.
C14_ExpiredAccessClosesSession ==
    [][mgrOp' = "record_rating_expired"
       => /\ active_session' = None
          /\ session_state'[active_session] = "degraded"]_vars

\* the lifecycle changes the spec allows: the main line, a diversion to
\* DEGRADED from any state on it, and from DEGRADED back to ACTIVE or on to
\* SYNCING_END
ClaimedTransitions ==
    {<<"idle", "syncing_start">>, <<"syncing_start", "active">>,
     <<"active", "syncing_end">>, <<"syncing_end", "complete">>,
     <<"syncing_start", "degraded">>, <<"active", "degraded">>,
     <<"syncing_end", "degraded">>,
     <<"degraded", "active">>, <<"degraded", "syncing_end">>}

\* C15: the state of a session that exists changes only along the claimed
\* lifecycle edges (a session is created ACTIVE; its creation is no change).
C15_LifecycleEdgesOnly ==
    [][\A s \in 1..session_count :
          session_state'[s] # session_state[s]
          => <<session_state[s], session_state'[s]>> \in ClaimedTransitions]_vars

\* C16: at session end a submission that fails with a transient error is
\* tried again before the rating counts as failed: the first failed
\* attempt for a rating (the only one end_session makes) does not yet
\* count it as failed nor write its recovery row.
C16_TransientFailureRetried ==
    [][(mgrOp' = "submit" /\ last_submit'.via = "end_session"
        /\ last_submit'.outcome = "transient")
       => /\ ender'.failed = ender.failed
          /\ ender'.k = ender.k
          /\ pending_reviews' = pending_reviews]_vars

\* ------------------------------------------ the recovery replay on its own
\* The rows of pending_reviews and the only code that ever marks or removes
\* them: _recover_pending_ratings, run by every start_session. Sessions are
\* left out; save_review stands for the writes of record_rating and of a
\* failed end_session. RecoveryStore.purge_old_unsynced has no caller
\* (SyncOrchestrator.purge_old_ratings is never invoked), so no step purges.

\* the rating numbers of the rows still unsynced
UnsyncedRids ==
    {pending_reviews[i].rid :
        i \in {j \in DOMAIN pending_reviews : ~pending_reviews[j].synced}}

\* RecoveryStore.save_review: a row is inserted, unsynced
StoreSaveReview(card_id, ease, sid) ==
    /\ Len(pending_reviews) < MaxRows
    /\ pending_reviews' =
           Append(pending_reviews,
                  Row(card_id, ease, sid, Len(pending_reviews) + 1))
    /\ mgrOp' = "save_review"
    /\ last_submit' = NoSubmit
    /\ UNCHANGED <<active_session, session_count, session_state,
                   pending_ratings, timed_out, save_queue, rating_count,
                   submitted_ok, starters, ender>>
    /\ UNCHANGED <<voiceVars, nodeVars, workerVars, apiVars>>

\* start_session reaches its call of _recover_pending_ratings
RecoverCall(c) ==
    /\ starters[c].pc = "idle"
    /\ starters' = [starters EXCEPT ![c].pc = "get_pending"]
    /\ mgrOp' = "recover_call"
    /\ last_submit' = NoSubmit
    /\ UNCHANGED <<active_session, session_count, session_state,
                   pending_ratings, timed_out, pending_reviews, save_queue,
                   rating_count, submitted_ok, ender>>
    /\ UNCHANGED <<voiceVars, nodeVars, workerVars, apiVars>>

\* _recover_pending_ratings returns once its loop is over
RecoverReturn(c) ==
    /\ starters[c].pc = "recover"
    /\ starters[c].todo = <<>>
    /\ starters' = [starters EXCEPT ![c] = IdleStarter]
    /\ mgrOp' = "recover_return"
    /\ last_submit' = NoSubmit
    /\ UNCHANGED <<active_session, session_count, session_state,
                   pending_ratings, timed_out, pending_reviews, save_queue,
                   rating_count, submitted_ok, ender>>
    /\ UNCHANGED <<voiceVars, nodeVars, workerVars, apiVars>>

NextReplay ==
    \/ \E card_id \in CardIds, ease \in RecordedRatings, sid \in 1..MaxSessions :
          StoreSaveReview(card_id, ease, sid)
    \/ \E c \in Callers : RecoverCall(c)
    \/ \E c \in Callers : StartGetPending(c)
    \/ \E c \in Callers, o \in SubmitOutcomes : RecoverSubmit(c, o)
    \/ \E c \in Callers : RecoverMarkSynced(c)
    \/ \E c \in Callers : RecoverReturn(c)

\* every step that can be taken is taken in the end: sessions keep being
\* started and each replay runs to its end; nothing makes a submission
\* succeed
FairReplay ==
    /\ \A c \in Callers :
          /\ WF_vars(RecoverCall(c))
          /\ WF_vars(StartGetPending(c))
          /\ WF_vars(\E o \in SubmitOutcomes : RecoverSubmit(c, o))
          /\ WF_vars(RecoverMarkSynced(c))
          /\ WF_vars(RecoverReturn(c))

SpecReplay == InitManager /\ [][NextReplay]_vars /\ FairReplay

\* C17: every row written to pending_reviews ends up synced or purged: a
\* rating unsynced in the table does not stay so forever.
C17_RowsEventuallySyncedOrPurged ==
    \A r \in 1..MaxRows : [](r \in UnsyncedRids => <>(r \notin UnsyncedRids))

\* --------------------------------------------- one session's ratings
\* The life of one session once start_session or restore_session has made
\* it the active one, with every piece of code that touches its
\* pending_ratings: record_rating, end_session, and the
\* _end_timed_out_session of a later start_session (followed up to the
\* point where it has closed the session).

\* the state once the first session has been started, nothing recovered
InitSession ==
    /\ VoiceInit
    /\ WorkerInit
    /\ ApiInit
    /\ initial_queue_len = 1
    /\ active_session = 1
    /\ session_count = 1
    /\ session_state = [s \in 1..MaxSessions |->
                           IF s = 1 THEN "active" ELSE "idle"]
    /\ pending_ratings = [s \in 1..MaxSessions |-> <<>>]
    /\ timed_out = FALSE
    /\ pending_reviews = <<>>
    /\ save_queue = <<>>
    /\ rating_count = 0
    /\ submitted_ok = {}
    /\ starters = [c \in Callers |-> IdleStarter]
    /\ ender = IdleEnder
    /\ mgrOp = "start_ok"
    /\ last_submit = NoSubmit

NextSession ==
    \/ \E sid \in 1..MaxSessions, card_id \in CardIds,
          rating \in RecordedRatings : RecordRating(sid, card_id, rating)
    \/ SaveReviewWrite
    \/ \E sid \in 1..MaxSessions : EndBegin(sid)
    \/ \E o \in SubmitOutcomes : EndSubmit(o)
    \/ EndFinish
    \/ Tick
    \/ \E c \in Callers : StartCheck(c)
    \/ \E c \in Callers, o \in SubmitOutcomes : TimedOutSubmit(c, o)
    \/ \E c \in Callers : TimedOutFinish(c)

SpecSession == InitSession /\ [][NextSession]_vars

\* the session is the active one or a call in progress holds it
Held(s) ==
    \/ active_session = s
    \/ ender.session = s
    \/ \E c \in Callers : starters[c].session = s

\* from this state to the next the pending ratings of session s keep their
\* place, card and rating, and a synced one stays synced
RatingsKept(s) ==
    /\ Len(pending_ratings'[s]) >= Len(pending_ratings[s])
    /\ \A i \in 1..Len(pending_ratings[s]) :
          /\ pending_ratings'[s][i].card_id = pending_ratings[s][i].card_id
          /\ pending_ratings'[s][i].rating = pending_ratings[s][i].rating
          /\ pending_ratings'[s][i].rid = pending_ratings[s][i].rid
          /\ pending_ratings[s][i].synced => pending_ratings'[s][i].synced

Origins == {"publish_first", "say_first"}

Utterances == 1..MaxUtterances

DedupUnchanged ==
    UNCHANGED <<published_text_hashes, now, received, agent_published_at>>

\* AgentMessagePublisher.get_or_create_message_id: the cached id of the
\* text, or a new ULID
MessageId(text) ==
    IF pending_message_ids[TextHash(text)] # 0
    THEN pending_message_ids[TextHash(text)]
    ELSE next_ulid

\* get_or_create_message_id's effect on the cache and on the ULIDs drawn
CacheMessageId(text) ==
    /\ pending_message_ids' =
           [pending_message_ids EXCEPT ![TextHash(text)] = MessageId(text)]
    /\ next_ulid' = IF pending_message_ids[TextHash(text)] # 0
                    THEN next_ulid ELSE next_ulid + 1

\* AgentMessagePublisher.publish_agent_message for utterance u: the id is
\* the one cached for the text, or a new ULID that is then cached
PublisherPublish(u) ==
    LET id == MessageId(utt[u].text)
    IN  /\ CacheMessageId(utt[u].text)
        /\ LET done == [utt EXCEPT ![u].id = id]
           IN  utt' = [done EXCEPT
                         ![u].handler =
                             IF utt[u].handler = "start" THEN "published"
                             ELSE IF utt[u].handler = "said" THEN "awaiting"
                             ELSE @,
                         ![u].track =
                             IF utt[u].handler \in {"start", "said"} THEN @
                             ELSE "text_sent"]

\* on_data_received: create_tracked_task(handle_...()), and the handler up
\* to the agent's response; a give_up or skip command fires record_rating
\* with _fire_and_forget on the way
HandlerStart(text, origin, fires) ==
    /\ ~disconnected
    /\ utt_count < MaxUtterances
    /\ fires => ff_tasks < MaxTasks
    /\ utt_count' = utt_count + 1
    /\ utt' = [utt EXCEPT ![utt_count + 1] =
                 [text |-> text, origin |-> origin, handler |-> "start",
                  tts |-> "none", track |-> "none", id |-> 0,
                  speaking |-> "none"]]
    /\ ff_tasks' = IF fires THEN ff_tasks + 1 ELSE ff_tasks
    /\ wOp' = "handler_start"
    /\ wText' = text
    /\ UNCHANGED <<pending_message_ids, next_ulid, disconnected>>
    /\ DedupUnchanged
    /\ UNCHANGED <<voiceVars, mgrVars, nodeVars, apiVars>>

\* the handler's await publisher.publish_agent_message(response): first
\* thing in handle_text_input, after session.say in handle_hint,
\* handle_give_up, handle_mnemonic and handle_question
HandlerPublish(u) ==
    /\ \/ utt[u].origin = "publish_first" /\ utt[u].handler = "start"
       \/ utt[u].origin = "say_first" /\ utt[u].handler = "said"
    /\ PublisherPublish(u)
    /\ wOp' = "handler_publish"
    /\ wText' = utt[u].text
    /\ UNCHANGED <<utt_count, disconnected, ff_tasks>>
    /\ DedupUnchanged
    /\ UNCHANGED <<voiceVars, mgrVars, nodeVars, apiVars>>

\* the handler's session.say(response, add_to_chat_ctx=False): the speech
\* is scheduled and on_speech_created creates the track_speaking_state task
HandlerSay(u) ==
    /\ \/ utt[u].origin = "publish_first" /\ utt[u].handler = "published"
       \/ utt[u].origin = "say_first" /\ utt[u].handler = "start"
    /\ utt' = [utt EXCEPT ![u].handler =
                              IF utt[u].origin = "say_first" THEN "said"
                              ELSE "awaiting",
                          ![u].tts = "scheduled",
                          ![u].track = "start"]
    /\ wOp' = "say"
    /\ wText' = utt[u].text
    /\ UNCHANGED <<utt_count, pending_message_ids, next_ulid, disconnected,
                   ff_tasks>>
    /\ DedupUnchanged
    /\ UNCHANGED <<voiceVars, mgrVars, nodeVars, apiVars>>

\* the speech pipeline starts synthesising and playing the utterance
TtsBegin(u) ==
    /\ utt[u].tts = "scheduled"
    /\ utt' = [utt EXCEPT ![u].tts = "playing"]
    /\ wOp' = "tts_begin"
    /\ wText' = utt[u].text
    /\ UNCHANGED <<utt_count, pending_message_ids, next_ulid, disconnected,
                   ff_tasks>>
    /\ DedupUnchanged
    /\ UNCHANGED <<voiceVars, mgrVars, nodeVars, apiVars>>

SpeechOutcomes == {"done", "failed", "interrupted"}

\* the speech ends: played to its end, failed (TTS error), or interrupted
\* by session.interrupt() of a later handler
TtsEnd(u, outcome) ==
    /\ \/ utt[u].tts = "playing"
       \/ utt[u].tts = "scheduled" /\ outcome = "interrupted"
    /\ utt' = [utt EXCEPT ![u].tts = outcome]
    /\ wOp' = "tts_end"
    /\ wText' = utt[u].text
    /\ UNCHANGED <<utt_count, pending_message_ids, next_ulid, disconnected,
                   ff_tasks>>
    /\ DedupUnchanged
    /\ UNCHANGED <<voiceVars, mgrVars, nodeVars, apiVars>>

\* the handler's await speech_handle returns (a failure goes to the
\* handler's except branch, whose error message is one more utterance)
HandlerReturn(u) ==
    /\ utt[u].handler = "awaiting"
    /\ utt[u].tts \in SpeechOutcomes
    /\ utt' = [utt EXCEPT ![u].handler = "done"]
    /\ wOp' = "handler_return"
    /\ wText' = utt[u].text
    /\ UNCHANGED <<utt_count, pending_message_ids, next_ulid, disconnected,
                   ff_tasks>>
    /\ DedupUnchanged
    /\ UNCHANGED <<voiceVars, mgrVars, nodeVars, apiVars>>

\* track_speaking_state: await publisher.publish_agent_message(text_content)
TrackPublishText(u) ==
    /\ utt[u].track = "start"
    /\ PublisherPublish(u)
    /\ wOp' = "track_publish"
    /\ wText' = utt[u].text
    /\ UNCHANGED <<utt_count, disconnected, ff_tasks>>
    /\ DedupUnchanged
    /\ UNCHANGED <<voiceVars, mgrVars, nodeVars, apiVars>>

\* track_speaking_state: agent_speaking_state {speaking: true} published
TrackSpeakingTrue(u) ==
    /\ utt[u].track = "text_sent"
    /\ utt' = [utt EXCEPT ![u].track = "awaiting", ![u].speaking = "true"]
    /\ wOp' = "speaking_true"
    /\ wText' = utt[u].text
    /\ UNCHANGED <<utt_count, pending_message_ids, next_ulid, disconnected,
                   ff_tasks>>
    /\ DedupUnchanged
    /\ UNCHANGED <<voiceVars, mgrVars, nodeVars, apiVars>>

\* track_speaking_state: await speech_handle returns, or raises for a
\* failed speech and the except branch logs the error
TrackAwait(u, raised) ==
    /\ utt[u].track = "awaiting"
    /\ utt[u].tts \in SpeechOutcomes
    /\ raised => utt[u].tts = "failed"
    /\ utt' = [utt EXCEPT ![u].track = IF raised THEN "failed"
                                       ELSE "to_false"]
    /\ wOp' = "track_await"
    /\ wText' = utt[u].text
    /\ UNCHANGED <<utt_count, pending_message_ids, next_ulid, disconnected,
                   ff_tasks>>
    /\ DedupUnchanged
    /\ UNCHANGED <<voiceVars, mgrVars, nodeVars, apiVars>>

\* track_speaking_state: agent_speaking_state {speaking: false} published
TrackSpeakingFalse(u) ==
    /\ utt[u].track = "to_false"
    /\ utt' = [utt EXCEPT ![u].track = "done", ![u].speaking = "false"]
    /\ wOp' = "speaking_false"
    /\ wText' = utt[u].text
    /\ UNCHANGED <<utt_count, pending_message_ids, next_ulid, disconnected,
                   ff_tasks>>
    /\ DedupUnchanged
    /\ UNCHANGED <<voiceVars, mgrVars, nodeVars, apiVars>>

RunningHandler(u) ==
    utt[u].handler \in {"start", "published", "said", "awaiting"}

RunningTrack(u) ==
    utt[u].track \in {"start", "text_sent", "awaiting", "to_false"}

\* on_room_disconnected: every task of _background_tasks that is not done
\* is cancelled and the set is cleared
OnRoomDisconnected ==
    /\ ~disconnected
    /\ disconnected' = TRUE
    /\ utt' = [u \in Utterances |->
                 [utt[u] EXCEPT
                    !.handler = IF RunningHandler(u) THEN "cancelled" ELSE @,
                    !.track = IF RunningTrack(u) THEN "cancelled" ELSE @]]
    /\ wOp' = "disconnected"
    /\ UNCHANGED <<utt_count, pending_message_ids, next_ulid, ff_tasks,
                   wText>>
    /\ DedupUnchanged
    /\ UNCHANGED <<voiceVars, mgrVars, nodeVars, apiVars>>

\* _fire_and_forget's wrapper: the awaited coroutine returns or raises
FireAndForgetDone ==
    /\ ff_tasks > 0
    /\ ff_tasks' = ff_tasks - 1
    /\ wOp' = "fire_and_forget_done"
    /\ UNCHANGED <<utt, utt_count, pending_message_ids, next_ulid,
                   disconnected, wText>>
    /\ DedupUnchanged
    /\ UNCHANGED <<voiceVars, mgrVars, nodeVars, apiVars>>

NextWorker ==
    \/ \E t \in Texts, o \in Origins, f \in BOOLEAN : HandlerStart(t, o, f)
    \/ \E u \in Utterances : HandlerPublish(u)
    \/ \E u \in Utterances : HandlerSay(u)
    \/ \E u \in Utterances : TtsBegin(u)
    \/ \E u \in Utterances, o \in SpeechOutcomes : TtsEnd(u, o)
    \/ \E u \in Utterances : HandlerReturn(u)
    \/ \E u \in Utterances : TrackPublishText(u)
    \/ \E u \in Utterances : TrackSpeakingTrue(u)
    \/ \E u \in Utterances, r \in BOOLEAN : TrackAwait(u, r)
    \/ \E u \in Utterances : TrackSpeakingFalse(u)
    \/ OnRoomDisconnected
    \/ FireAndForgetDone

\* one session of one card behind the worker; the manager is idle
InitWorker ==
    /\ VoiceInit
    /\ WorkerInit
    /\ ApiInit
    /\ initial_queue_len = 1
    /\ ManagerInit

SpecWorker == InitWorker /\ [][NextWorker]_vars

TypeOKWorker ==
    /\ utt_count \in 0..MaxUtterances
    /\ \A u \in Utterances :
          /\ utt[u].text \in Texts
          /\ utt[u].origin \in Origins \cup {"none"}
          /\ utt[u].id \in 0..MaxUtterances
          /\ utt[u].speaking \in {"none", "true", "false"}
    /\ next_ulid \in 1..(MaxUtterances + 1)
    /\ ff_tasks \in 0..MaxTasks
    /\ disconnected \in BOOLEAN


\* ------------------------------------------ properties of SpecWorker
\* C23: two different utterances whose agent_message was published never
\* carry the same id, even when their texts are identical.
C23_MessageIdsUnique ==
    \A u, v \in Utterances :
        (u # v /\ utt[u].id # 0 /\ utt[v].id # 0) => utt[u].id # utt[v].id

\* C24: when the speech of an utterance begins, the agent_message with its
\* text has already been published.
C24_TextBeforeTts ==
    [][\A u \in Utterances :
          (utt[u].tts = "scheduled" /\ utt'[u].tts = "playing")
          => utt[u].id # 0]_vars

\* C25: an utterance whose track_speaking_state task is over (done, failed
\* or cancelled) is not left with {speaking: true} as its last
\* agent_speaking_state: the {speaking: false} was published.
C25_SpeakingStateClosed ==
    \A u \in Utterances :
        (utt[u].track \in {"done", "failed", "cancelled"})
        => utt[u].speaking # "true"

\* C27: once the room's disconnect has been handled no task started for
\* the session is running: no handler, no speaking-state task and no
\* fire-and-forget task.
C27_DisconnectCancelsAllTasks ==
    disconnected
    => /\ ff_tasks = 0
       /\ \A u \in Utterances : ~RunningHandler(u) /\ ~RunningTrack(u)


\* -------------------------------------------------- text deduplication
\* The agent's own publish of a text, the "conversation item added" hook
\* of the transport and the clock (agents/uncons_agent.py, agents/worker.py)
TickSeconds == 10

\* on_conversation_item_added's test with a window of 10 seconds
IsRecentlyPublishedShort(text) ==
    /\ published_text_hashes[PrefixHash(text)] >= 0
    /\ now - published_text_hashes[PrefixHash(text)] < 10

\* on_conversation_item_added: the hash of the text's first 30 characters
\* has an entry younger than 30 seconds
IsRecentlyPublished(text) ==
    /\ published_text_hashes[PrefixHash(text)] >= 0
    /\ now - published_text_hashes[PrefixHash(text)] < DEDUP_SECONDS

\* UnconsAgent.publish_agent_message: without a room, or when publish_data
\* raises, nothing is sent and nothing is marked; otherwise the packet is
\* sent under a fresh ULID and mark_text_published stamps the text's hash
AgentPublishMessage(text, ok) ==
    /\ IF ok
       THEN /\ received[text] < MaxReceived
            /\ received' = [received EXCEPT ![text] = @ + 1]
            /\ published_text_hashes' =
                   [published_text_hashes EXCEPT ![PrefixHash(text)] = now]
            /\ agent_published_at' = [agent_published_at EXCEPT ![text] = now]
       ELSE UNCHANGED <<received, published_text_hashes, agent_published_at>>
    /\ wOp' = "agent_publish"
    /\ wText' = text
    /\ UNCHANGED <<utt, utt_count, pending_message_ids, next_ulid,
                   disconnected, ff_tasks, now>>
    /\ UNCHANGED <<voiceVars, mgrVars, nodeVars, apiVars>>

\* on_conversation_item_added for an assistant item: a recently published
\* text is skipped; otherwise an expired entry is deleted and the text is
\* published by a tracked task through the AgentMessagePublisher, which
\* may fail to send it
ConversationItemAdded(text, ok) ==
    /\ IF IsRecentlyPublished(text)
       THEN UNCHANGED <<published_text_hashes, received, pending_message_ids,
                        next_ulid>>
       ELSE /\ published_text_hashes' =
                   [published_text_hashes EXCEPT ![PrefixHash(text)] = -1]
            /\ CacheMessageId(text)
            /\ IF ok
               THEN /\ received[text] < MaxReceived
                    /\ received' = [received EXCEPT ![text] = @ + 1]
               ELSE UNCHANGED received
    /\ wOp' = "conversation_item_added"
    /\ wText' = text
    /\ UNCHANGED <<utt, utt_count, disconnected, ff_tasks, now,
                   agent_published_at>>
    /\ UNCHANGED <<voiceVars, mgrVars, nodeVars, apiVars>>

\* time passes
Tick10 ==
    /\ now + TickSeconds <= MaxClock
    /\ now' = now + TickSeconds
    /\ wOp' = "tick"
    /\ UNCHANGED <<utt, utt_count, pending_message_ids, next_ulid,
                   disconnected, ff_tasks, published_text_hashes, received,
                   agent_published_at, wText>>
    /\ UNCHANGED <<voiceVars, mgrVars, nodeVars, apiVars>>

NextDedup ==
    \/ \E t \in Texts, ok \in BOOLEAN : AgentPublishMessage(t, ok)
    \/ \E t \in Texts, ok \in BOOLEAN : ConversationItemAdded(t, ok)
    \/ Tick10

SpecDedup == InitWorker /\ [][NextDedup]_vars

\* C26: when the agent has published a text less than 30 seconds ago, the
\* conversation-item hook called with that text publishes nothing: the
\* client does not receive the text once more.
C26_HookSuppressedAfterAgentPublish ==
    [][(/\ wOp' = "conversation_item_added"
        /\ agent_published_at[wText'] >= 0
        /\ now - agent_published_at[wText'] < DEDUP_SECONDS)
       => received' = received]_vars

C26_Witness ==
    /\ wOp = "conversation_item_added"
    /\ agent_published_at[wText] >= 0
    /\ now - agent_published_at[wText] < DEDUP_SECONDS
    /\ now > agent_published_at[wText]
    /\ received[wText] = 1


\* ------------------------------------------------------ agent dispatch
\* POST /api/livekit/token (get_token), with each await inside the lock as
\* a step, clear_room_dispatch called by the session routes, and the clock
\* (api/routes/livekit.py, api/routes/session.py)
TickApiSeconds == 150

CardsUnchanged ==
    UNCHANGED <<session_cards, current_index, rate_response, end_calls,
                submit_calls, serviceVars>>

\* _cleanup_expired_rooms at time t
CleanupExpired(cache, t) ==
    [r \in Rooms |-> IF cache[r] >= 0 /\ t - cache[r] > ROOM_EXPIRY_SECONDS
                     THEN -1 ELSE cache[r]]

ListOutcomes == {"no_agent", "agent", "error"}

\* get_token up to its first await: the lock is taken, expired rooms are
\* dropped, and a room found in the cache is skipped (the lock is released
\* and the token returned); otherwise list_participants is awaited
TokenEnter(q, room) ==
    /\ token_req[q].pc = "idle"
    /\ dispatch_lock = "free"
    /\ dispatched_rooms' = CleanupExpired(dispatched_rooms, api_clock)
    /\ IF dispatched_rooms'[room] >= 0
       THEN /\ apiOp' = "token_skip"
            /\ UNCHANGED <<dispatch_lock, token_req>>
       ELSE /\ apiOp' = "token_enter"
            /\ dispatch_lock' = q
            /\ token_req' = [token_req EXCEPT ![q] =
                                [pc |-> "list", room |-> room]]
    /\ UNCHANGED <<api_clock, dispatches>>
    /\ CardsUnchanged
    /\ UNCHANGED <<voiceVars, mgrVars, nodeVars, workerVars>>

\* get_token after list_participants: with an agent in the room nothing is
\* dispatched; with none, or on an error, the room is stamped in the cache
\* and create_dispatch is awaited
TokenListed(q, outcome) ==
    /\ token_req[q].pc = "list"
    /\ IF outcome = "agent"
       THEN /\ token_req' = [token_req EXCEPT ![q].pc = "close"]
            /\ UNCHANGED dispatched_rooms
       ELSE /\ token_req' = [token_req EXCEPT ![q].pc = "create"]
            /\ dispatched_rooms' =
                   [dispatched_rooms EXCEPT ![token_req[q].room] = api_clock]
    /\ apiOp' = "token_listed"
    /\ UNCHANGED <<dispatch_lock, api_clock, dispatches>>
    /\ CardsUnchanged
    /\ UNCHANGED <<voiceVars, mgrVars, nodeVars, workerVars>>

\* get_token after create_dispatch: the dispatch exists and aclose is
\* awaited, or the call raised: the room is popped from the cache, the lock
\* released and the token returned
TokenCreated(q, ok) ==
    /\ token_req[q].pc = "create"
    /\ IF ok
       THEN /\ Len(dispatches[token_req[q].room]) < MaxDispatches
            /\ dispatches' = [dispatches EXCEPT ![token_req[q].room] =
                                 Append(@, api_clock)]
            /\ token_req' = [token_req EXCEPT ![q].pc = "close"]
            /\ apiOp' = "token_created"
            /\ UNCHANGED <<dispatched_rooms, dispatch_lock>>
       ELSE /\ dispatched_rooms' =
                   [dispatched_rooms EXCEPT ![token_req[q].room] = -1]
            /\ dispatch_lock' = "free"
            /\ token_req' = [token_req EXCEPT ![q] = IdleRequest]
            /\ apiOp' = "token_failed"
            /\ UNCHANGED dispatches
    /\ UNCHANGED api_clock
    /\ CardsUnchanged
    /\ UNCHANGED <<voiceVars, mgrVars, nodeVars, workerVars>>

\* get_token after lk_api.aclose(): it is inside the same try, so when it
\* raises the room is popped from the cache; the lock is released and the
\* token returned
TokenClosed(q, ok) ==
    /\ token_req[q].pc = "close"
    /\ dispatched_rooms' =
           IF ok THEN dispatched_rooms
           ELSE [dispatched_rooms EXCEPT ![token_req[q].room] = -1]
    /\ dispatch_lock' = "free"
    /\ token_req' = [token_req EXCEPT ![q] = IdleRequest]
    /\ apiOp' = IF ok THEN "token_done" ELSE "token_close_failed"
    /\ UNCHANGED <<api_clock, dispatches>>
    /\ CardsUnchanged
    /\ UNCHANGED <<voiceVars, mgrVars, nodeVars, workerVars>>

\* clear_room_dispatch, called by the end_session, force_end_session and
\* reset_test_state routes for the room of an ended session
ClearRoomDispatch(room) ==
    /\ dispatched_rooms[room] >= 0
    /\ dispatched_rooms' = [dispatched_rooms EXCEPT ![room] = -1]
    /\ apiOp' = "clear_room_dispatch"
    /\ UNCHANGED <<dispatch_lock, token_req, api_clock, dispatches>>
    /\ CardsUnchanged
    /\ UNCHANGED <<voiceVars, mgrVars, nodeVars, workerVars>>

\* time passes
ApiTick ==
    /\ api_clock + TickApiSeconds <= MaxTicks * TickApiSeconds
    /\ api_clock' = api_clock + TickApiSeconds
    /\ apiOp' = "tick"
    /\ UNCHANGED <<dispatched_rooms, dispatch_lock, token_req, dispatches>>
    /\ CardsUnchanged
    /\ UNCHANGED <<voiceVars, mgrVars, nodeVars, workerVars>>

NextDispatch ==
    \/ \E q \in Requests, r \in Rooms : TokenEnter(q, r)
    \/ \E q \in Requests, o \in ListOutcomes : TokenListed(q, o)
    \/ \E q \in Requests, ok \in BOOLEAN : TokenCreated(q, ok)
    \/ \E q \in Requests, ok \in BOOLEAN : TokenClosed(q, ok)
    \/ \E r \in Rooms : ClearRoomDispatch(r)
    \/ ApiTick

SpecDispatch == InitWorker /\ [][NextDispatch]_vars

\* C28: no two agent dispatches are created for the same room within 5
\* minutes of each other, whatever the token requests and their overlap.
C28_OneDispatchPerWindow ==
    \A r \in Rooms : \A i, j \in DOMAIN dispatches[r] :
        i < j => dispatches[r][j] - dispatches[r][i] >= ROOM_EXPIRY_SECONDS


\* ------------------------------------------------------- card routes
\* POST /api/cards/{id}/rate and /skip on the active session 1
\* (api/routes/cards.py, SessionManager.record_rating and skip_card,
\* domain/entities/session.py)
DispatchUnchanged ==
    UNCHANGED <<dispatched_rooms, dispatch_lock, token_req, api_clock,
                dispatches, end_calls, submit_calls, serviceVars>>

\* the card ids a request can name: the session's cards and one other
RequestCardIds == 1..(MaxCards + 1)

\* Session.get_current_card
GetCurrentCard(cards, index) ==
    IF index >= Len(cards) THEN None ELSE cards[index + 1]

\* Session.get_remaining_count
GetRemainingCount(cards, index) ==
    IF Len(cards) - index > 0 THEN Len(cards) - index ELSE 0

\* rate_card: SessionManager.record_rating raises for a session that is
\* not the active one (404), has timed out (401) or does not hold the card
\* (400); otherwise the rating is appended to pending_ratings, save_review
\* is called, and the answer is the session's current card and remaining
\* count
RateCard(card_id, rating) ==
    /\ rating_count < MaxRatings
    /\ IF active_session # 1
       THEN /\ rate_response' = [NoResponse EXCEPT !.status = "not_found",
                                                   !.card_id = card_id]
            /\ UNCHANGED <<pending_ratings, save_queue, rating_count>>
       ELSE IF timed_out
       THEN /\ rate_response' = [NoResponse EXCEPT !.status = "expired",
                                                   !.card_id = card_id]
            /\ UNCHANGED <<pending_ratings, save_queue, rating_count>>
       ELSE IF card_id \notin Range(session_cards)
       THEN /\ rate_response' = [NoResponse EXCEPT !.status = "invalid",
                                                   !.card_id = card_id]
            /\ UNCHANGED <<pending_ratings, save_queue, rating_count>>
       ELSE /\ rating_count' = rating_count + 1
            /\ pending_ratings' =
                   [pending_ratings EXCEPT ![1] =
                       Append(@, [card_id |-> card_id, rating |-> rating,
                                  synced |-> FALSE,
                                  rid |-> rating_count + 1])]
            /\ save_queue' =
                   Append(save_queue,
                          Row(card_id, rating, 1, rating_count + 1))
            /\ rate_response' =
                   [status |-> "ok", card_id |-> card_id,
                    next_card |-> GetCurrentCard(session_cards,
                                                 current_index),
                    remaining |-> GetRemainingCount(session_cards,
                                                    current_index)]
    /\ apiOp' = "rate"
    /\ mgrOp' = "record_rating"
    /\ last_submit' = NoSubmit
    /\ UNCHANGED <<session_cards, current_index>>
    /\ DispatchUnchanged
    /\ UNCHANGED <<active_session, session_count, session_state, timed_out,
                   pending_reviews, submitted_ok, starters, ender>>
    /\ UNCHANGED <<voiceVars, nodeVars, workerVars>>

\* skip_card: Session.skip_current_card moves the current card to the end
\* of the queue; the answer is the new current card and the remaining count
SkipCardRoute ==
    /\ IF active_session # 1
       THEN /\ rate_response' = [NoResponse EXCEPT !.status = "not_found"]
            /\ UNCHANGED session_cards
       ELSE IF timed_out
       THEN /\ rate_response' = [NoResponse EXCEPT !.status = "expired"]
            /\ UNCHANGED session_cards
       ELSE IF GetCurrentCard(session_cards, current_index) = None
       THEN /\ rate_response' = [NoResponse EXCEPT !.status = "error"]
            /\ UNCHANGED session_cards
       ELSE /\ session_cards' =
                   SubSeq(session_cards, 1, current_index)
                   \o SubSeq(session_cards, current_index + 2,
                             Len(session_cards))
                   \o <<session_cards[current_index + 1]>>
            /\ rate_response' =
                   [status |-> "ok",
                    card_id |-> session_cards[current_index + 1],
                    next_card |-> GetCurrentCard(session_cards',
                                                 current_index),
                    remaining |-> GetRemainingCount(session_cards',
                                                    current_index)]
    /\ apiOp' = "skip"
    /\ UNCHANGED current_index
    /\ DispatchUnchanged
    /\ UNCHANGED <<mgrVars, voiceVars, nodeVars, workerVars>>

NextCards ==
    \/ \E c \in RequestCardIds, r \in RecordedRatings : RateCard(c, r)
    \/ SkipCardRoute
    \/ SaveReviewWrite
    \/ Tick

SpecCards == InitSession /\ [][NextCards]_vars

\* C29: rating the current card through POST /cards/{id}/rate answers with
\* the card that follows it in the queue and with a remaining count one
\* lower than before the rating.
C29_RateReturnsNextCard ==
    [][(/\ apiOp' = "rate"
        /\ rate_response'.status = "ok"
        /\ rate_response'.card_id
             = GetCurrentCard(session_cards, current_index))
       => /\ rate_response'.next_card
               = GetCurrentCard(session_cards, current_index + 1)
          /\ rate_response'.remaining
               = GetRemainingCount(session_cards, current_index) - 1]_vars


\* ------------------------------------- end_session called more than once
\* SessionManager.end_session is a coroutine of the agent's event loop: the
\* NEXT command on the last card starts it as a fire-and-forget task, the
\* STOP command and end_session tool await it, and the worker's shutdown
\* hook awaits it. A call runs from one await to the next without
\* interruption; at an await another call may run.

EndUnchanged ==
    UNCHANGED <<dispatched_rooms, dispatch_lock, token_req, api_clock,
                dispatches, session_cards, current_index, rate_response,
                serviceVars>>

\* the body of end_session's for loop up to its next await, from index k:
\* synced ratings are skipped; at an unsynced one submit_review is awaited;
\* after the last one the final state is set and
\* _recovery_store.end_session is awaited
EndRunToAwait(c, k, failed) ==
    LET n == NextUnsynced(1, k)
    IN  IF n <= Len(pending_ratings[1])
        THEN /\ end_calls' = [end_calls EXCEPT ![c] =
                    [pc |-> "submit", k |-> n, failed |-> failed]]
             /\ UNCHANGED session_state
        ELSE /\ end_calls' = [end_calls EXCEPT ![c] =
                    [pc |-> "persist", k |-> n, failed |-> failed]]
             /\ session_state' =
                    [session_state EXCEPT ![1] =
                        IF failed > 0 THEN "degraded" ELSE "complete"]

\* end_session from its call to its first await: SessionNotFoundError
\* unless the session is the active one, transition_to(SYNCING_END) with
\* ValueError suppressed, then the loop
EndCall(c) ==
    /\ end_calls[c].pc = "idle"
    /\ IF active_session = 1
       THEN /\ EndRunToAwait(c, 1, 0)
            /\ apiOp' = "end_call"
       ELSE /\ end_calls' = [end_calls EXCEPT ![c].pc = "raised"]
            /\ apiOp' = "end_not_found"
            /\ UNCHANGED session_state
    /\ mgrOp' = "end_begin"
    /\ last_submit' = NoSubmit
    /\ EndUnchanged
    /\ UNCHANGED <<active_session, session_count, pending_ratings, timed_out,
                   pending_reviews, save_queue, rating_count, submitted_ok,
                   starters, ender, submit_calls>>
    /\ UNCHANGED <<voiceVars, nodeVars, workerVars>>

\* submit_review returns to the call that awaited it: synced = True on
\* success, save_review of a new row and failed_count += 1 on an
\* exception; then the loop goes on to its next await
EndSubmitReturn(c, outcome) ==
    LET k == end_calls[c].k
        r == pending_ratings[1][k]
        failed == IF outcome = "ok" THEN end_calls[c].failed
                  ELSE end_calls[c].failed + 1
    IN  /\ end_calls[c].pc = "submit"
        /\ SyncRating(1, k, outcome, "end_session")
        /\ submit_calls' = IF outcome = "ok"
                           THEN [submit_calls EXCEPT ![r.rid] = @ + 1]
                           ELSE submit_calls
        /\ EndRunToAwait(c, k + 1, failed)
        /\ mgrOp' = "submit"
        /\ apiOp' = "end_submit"
        /\ EndUnchanged
        /\ UNCHANGED <<active_session, session_count, timed_out, save_queue,
                       rating_count, starters, ender>>
        /\ UNCHANGED <<voiceVars, nodeVars, workerVars>>

\* _recovery_store.end_session returns: _active_session = None and the
\* result
EndPersisted(c) ==
    /\ end_calls[c].pc = "persist"
    /\ active_session' = None
    /\ end_calls' = [end_calls EXCEPT ![c].pc = "returned"]
    /\ mgrOp' = "end_session"
    /\ apiOp' = "end_return"
    /\ last_submit' = NoSubmit
    /\ EndUnchanged
    /\ UNCHANGED <<session_count, session_state, pending_ratings, timed_out,
                   pending_reviews, save_queue, rating_count, submitted_ok,
                   starters, ender, submit_calls>>
    /\ UNCHANGED <<voiceVars, nodeVars, workerVars>>

NextEnd ==
    \/ \E card_id \in CardIds, rating \in RecordedRatings :
          RecordRating(1, card_id, rating)
    \/ SaveReviewWrite
    \/ \E c \in EndCallers : EndCall(c)
    \/ \E c \in EndCallers, o \in SubmitOutcomes : EndSubmitReturn(c, o)
    \/ \E c \in EndCallers : EndPersisted(c)

SpecEnd == InitSession /\ [][NextEnd]_vars

\* C30: each pending rating is accepted by the flashcard store at most
\* once, also when end_session is called more than once or by two callers
\* at the same time
C30_RatingSubmittedAtMostOnce ==
    \A r \in 1..MaxRatings : submit_calls[r] <= 1



\* the cards not yet reviewed, in the order in which they will be shown
Remaining ==
    (IF current_card # None THEN <<current_card>> ELSE <<>>) \o card_queue

C33_UndoKeepsOtherRatings ==
    [][(/\ lastOp' = "undo"
        /\ rated
        /\ current_card # None
        /\ current_card # previous_card)
       => rating_history' # <<>>]_vars


\* C34: every advance (here the NEXT command, which does nothing else to
\* the state) resets the per-card fields hints_used and
\* socratic_turn_count, increments cards_reviewed and leaves
\* rating_history as it was, also when no card is left in the queue
C34_AdvanceResetsPerCardFields ==
    [][lastOp' = "next"
       => /\ hints_used' = 0
          /\ socratic_turn_count' = 0
          /\ cards_reviewed' = cards_reviewed + 1
          /\ rating_history' = rating_history]_vars


\* C36: session_complete is published at most once in a session: a handler
\* that follows one that published session_complete does not publish it
\* again
C36_SessionCompleteOnce ==
    []["session_complete" \in EventTypes(events)
       => "session_complete" \notin EventTypes(events')]_vars

\* ------------------------------ the agent's ratings in the session manager
\* The agent and the session manager together, for one session: the agent
\* records a rating in the voice state and fires SessionManager.record_rating
\* as a task; the task appends the rating to the session's pending_ratings;
\* end_session submits the pending ratings to the flashcard store.

\* no record_rating task fired by the last handler is still to run
NoTaskPending == \A i \in DOMAIN fired : fired[i].name # "record_rating"

\* a record_rating task fired by the agent runs: SessionManager.record_rating
\* for the task's card and rating
RunRecordRatingTask ==
    /\ fired # <<>>
    /\ Head(fired).name = "record_rating"
    /\ rating_count < MaxRatings
    /\ fired' = Tail(fired)
    /\ IF active_session = 1 /\ ~timed_out
       THEN /\ rating_count' = rating_count + 1
            /\ pending_ratings' =
                   [pending_ratings EXCEPT ![1] =
                       Append(@, [card_id |-> Head(fired).card,
                                  rating |-> Head(fired).rating,
                                  synced |-> FALSE,
                                  rid |-> rating_count + 1])]
            /\ save_queue' =
                   Append(save_queue,
                          Row(Head(fired).card, Head(fired).rating, 1,
                              rating_count + 1))
            /\ mgrOp' = "record_rating"
       ELSE /\ mgrOp' = "record_rating_not_found"
            /\ UNCHANGED <<pending_ratings, save_queue, rating_count>>
    /\ last_submit' = NoSubmit
    /\ UNCHANGED <<active_session, session_count, session_state, timed_out,
                   pending_reviews, submitted_ok, starters, ender>>
    /\ UNCHANGED <<current_card, previous_card, card_queue, rating_history,
                   hints_used, socratic_turn_count, cards_reviewed,
                   should_end, current_state, queued, inflight, events,
                   lastOp, lastEval, initial_queue_len, hint_taken, rated>>
    /\ UNCHANGED <<nodeVars, workerVars, apiVars>>

\* the session is under review: no end_session call has begun
Reviewing == NoTaskPending /\ ender.pc = "idle" /\ active_session = 1

\* the agent has nothing in progress: no answer waits, no evaluation
\* awaits the LLM, no task is still to run
AgentIdle == NoTaskPending /\ queued = 0 /\ inflight = <<>>

\* one session from its first card to the end of end_session, ended when
\* the agent is idle
NextUndo ==
    \/ Reviewing /\ AnswerReceived
    \/ Reviewing /\ EvaluateBegin
    \/ Reviewing /\ EvaluateEnd
    \/ Reviewing /\ NextCommand
    \/ Reviewing /\ Undo
    \/ RunRecordRatingTask
    \/ SaveReviewWrite
    \/ AgentIdle /\ EndBegin(1)
    \/ \E o \in SubmitOutcomes : EndSubmit(o)
    \/ EndFinish

SpecUndo == InitSession /\ [][NextUndo]_vars

\* C31: when end_session has synced every rating, the ratings submitted to
\* the flashcard store are as many as the ratings left in the voice state's
\* rating_history: a rating the learner has undone is not submitted
C31_UndoneRatingNotSubmitted ==
    [][(/\ ender.pc = "sync"
        /\ ender'.pc = "idle"
        /\ session_state'[1] = "complete")
       => Cardinality(submitted_ok') = Len(rating_history')]_vars


\* ------------------------------------- end_session with a failing store
\* _recovery_store.end_session raises (the UPDATE of the sessions table
\* fails): the exception leaves end_session before _active_session = None
EndPersistRaised(c) ==
    /\ end_calls[c].pc = "persist"
    /\ end_calls' = [end_calls EXCEPT ![c].pc = "persist_raised"]
    /\ mgrOp' = "end_session_raised"
    /\ apiOp' = "end_raised"
    /\ last_submit' = NoSubmit
    /\ EndUnchanged
    /\ UNCHANGED <<active_session, session_count, session_state,
                   pending_ratings, timed_out, pending_reviews, save_queue,
                   rating_count, submitted_ok, starters, ender,
                   submit_calls>>
    /\ UNCHANGED <<voiceVars, nodeVars, workerVars>>

\* the end_session calls that have returned or raised
EndCallsOver ==
    {c \in EndCallers :
        end_calls[c].pc \in {"returned", "raised", "persist_raised"}}

NextClose ==
    \/ \E card_id \in CardIds, rating \in RecordedRatings :
          RecordRating(1, card_id, rating)
    \/ SaveReviewWrite
    \/ \E c \in EndCallers : EndCall(c)
    \/ \E c \in EndCallers, o \in SubmitOutcomes : EndSubmitReturn(c, o)
    \/ \E c \in EndCallers : EndPersisted(c)
    \/ \E c \in EndCallers : EndPersistRaised(c)
    \/ \E c \in Callers : StartCheck(c)

SpecClose == InitSession /\ [][NextClose]_vars

\* C35: once an end_session call has returned or raised, the manager holds
\* no active session and start_session is not answered with
\* SessionConflictError
C35_NoActiveSessionAfterEnd ==
    EndCallsOver # {} => (active_session = None /\ mgrOp # "conflict")


\* ------------------------------------------- evaluation with a failing LLM
\* how GeminiAdapter.evaluate_answer can fail ("none": it returns)
AdapterFailures ==
    {"none", "rate_limit", "api_timeout", "bad_json", "empty_response",
     "other"}

\* the exception GeminiAdapter.evaluate_answer raises for a failure
AdapterRaises(failure) ==
    CASE failure = "rate_limit"  -> "LLMRateLimitError"
      [] failure = "api_timeout" -> "LLMTimeoutError"
      [] OTHER                   -> "LLMServiceError"

\* LLMServiceError and its subclasses: what `except LLMServiceError` catches
LLMServiceErrors ==
    {"LLMServiceError", "LLMRateLimitError", "LLMTimeoutError"}

\* the feedback of an evaluation: FeedbackMessages.LLM_ERROR in the except
\* branch, the LLM's own otherwise
ServiceFeedback(failure) ==
    IF failure = "none" THEN "llm" ELSE "LLM_ERROR"

\* _evaluate_answer_impl from orchestrator.evaluate to the extracted
\* fields: the service's try/except around the LLM call, then the agent's
\* own fallback for an LLMServiceError that got through
EvaluateAnswer(failure, response, turn) ==
    LET caught == AdapterRaises(failure) \in LLMServiceErrors
        e == OrchestratorEvaluate(
                 turn, IF failure = "none" THEN "llm_ok" ELSE "llm_error",
                 response)
    IN  IF failure = "none" \/ caught
        THEN [failure |-> failure, response |-> response, turn |-> turn,
              raised |-> "none", rating |-> e.rating,
              is_correct |-> e.is_correct,
              enter_socratic |-> e.enter_socratic,
              feedback |-> ServiceFeedback(failure)]
        ELSE [failure |-> failure, response |-> response, turn |-> turn,
              raised |-> AdapterRaises(failure), rating |-> 0,
              is_correct |-> FALSE, enter_socratic |-> FALSE,
              feedback |-> "none"]

\* an answer is evaluated
EvaluateCall(failure, response, turn) ==
    /\ services' = [services EXCEPT
           !.evaluated = EvaluateAnswer(failure, response, turn)]
    /\ apiOp' = "evaluate"
    /\ UNCHANGED <<dispatched_rooms, dispatch_lock, token_req, api_clock,
                   dispatches, session_cards, current_index, rate_response,
                   end_calls, submit_calls>>
    /\ UNCHANGED <<voiceVars, mgrVars, nodeVars, workerVars>>

NextEvaluate ==
    \E failure \in AdapterFailures, response \in LLMResponses,
       turn \in 0..MAX_SOCRATIC_TURNS :
        EvaluateCall(failure, response, turn)

SpecEvaluate == InitWorker /\ [][NextEvaluate]_vars

\* C37: when the LLM call fails, the evaluation comes back as Hard (rating
\* 2) with the fixed LLM_ERROR feedback, not entering Socratic mode, and
\* no exception reaches the caller
C37_LLMFailureGracefulHard ==
    evaluated.failure \notin {"no_call", "none"}
    => /\ evaluated.raised = "none"
       /\ evaluated.rating = HARD
       /\ evaluated.feedback = "LLM_ERROR"
       /\ ~evaluated.enter_socratic

C37_Witness ==
    /\ evaluated.failure = "api_timeout"
    /\ evaluated.rating = HARD
    /\ evaluated.raised = "none"


\* --------------------------------------------- validation of an answer
\* the characters of an answer: a letter, a digit, a blank and two
\* punctuation marks
Chars == {"a", "2", " ", ".", "_"}

\* ASCII punctuation (string.punctuation) among them
Punctuation == {".", "_"}

\* Python's \w (letters, digits and the underscore) and \s
IsWord(c) == c \in {"a", "2", "_"}

IsSpace(c) == c = " "

AnswerTexts == UNION {[1..n -> Chars] : n \in 0..MaxText}

\* re.sub(r"[^\w\s]", "", text): the characters that are neither \w nor \s
\* are taken out
SubNonWord(text) == SelectSeq(text, LAMBDA c : IsWord(c) \/ IsSpace(c))

\* str.strip(): leading and trailing whitespace is taken off
Strip(text) ==
    LET keep == {i \in DOMAIN text : ~IsSpace(text[i])}
    IN  IF keep = {} THEN <<>>
        ELSE LET first == CHOOSE i \in keep : \A j \in keep : i <= j
                 last == CHOOSE i \in keep : \A j \in keep : j <= i
             IN  SubSeq(text, first, last)

\* the check of _evaluate_answer_impl and of handle_text_input: the answer
\* is rejected when nothing is left of it
IsRejected(text) == Strip(SubNonWord(text)) = <<>>

\* an answer arrives: it is rejected with "I didn't catch that", or goes on
\* to the command parser and the evaluation
ValidateAnswer(text) ==
    /\ services' = [services EXCEPT !.validated =
           [text |-> text, rejected |-> IsRejected(text), checked |-> TRUE]]
    /\ apiOp' = "validate"
    /\ UNCHANGED <<dispatched_rooms, dispatch_lock, token_req, api_clock,
                   dispatches, session_cards, current_index, rate_response,
                   end_calls, submit_calls>>
    /\ UNCHANGED <<voiceVars, mgrVars, nodeVars, workerVars>>

NextValidate == \E text \in AnswerTexts : ValidateAnswer(text)

SpecValidate == InitWorker /\ [][NextValidate]_vars

\* C38: an answer that is empty or holds only punctuation is rejected, and
\* an answer of one letter or digit is not
C38_PunctuationOnlyRejected ==
    validated.checked
    => /\ (\A i \in DOMAIN validated.text :
              validated.text[i] \in Punctuation) => validated.rejected
       /\ (Len(validated.text) = 1 /\ validated.text[1] \in {"a", "2"})
              => ~validated.rejected


\* ------------------------------------------------ clarification requests
SILENCE_UTTERANCE_END_MS == 300

SILENCE_THINKING_MS == 2000

SILENCE_TIMEOUT_MS == 30000

\* CONFIDENCE_CLARIFY_THRESHOLD (0.7), in tenths
CONFIDENCE_CLARIFY_THRESHOLD == 7

Silences == {0, SILENCE_UTTERANCE_END_MS, SILENCE_THINKING_MS,
             SILENCE_TIMEOUT_MS}

\* a transcript: its confidence in tenths, whether it is final, and which
\* cues its text holds
Transcripts ==
    [confidence : {5, 7, 9}, is_final : BOOLEAN, done_marker : BOOLEAN,
     filler : BOOLEAN, continuation : BOOLEAN]

\* Transcript.needs_clarification: the confidence level is LOW (below 0.7)
NeedsClarification(transcript) == transcript.confidence < 7

TurnDetectionResult(status, should_process, needs_clarification) ==
    [status |-> status, should_process |-> should_process,
     needs_clarification |-> needs_clarification]

\* TurnDetector.analyze
Analyze(transcript, silence_duration_ms, clarification_count) ==
    IF silence_duration_ms >= SILENCE_TIMEOUT_MS
    THEN TurnDetectionResult("timeout", TRUE, FALSE)
    ELSE IF transcript = NoTranscript
    THEN TurnDetectionResult(
             IF silence_duration_ms >= SILENCE_THINKING_MS
             THEN "thinking" ELSE "listening", FALSE, FALSE)
    ELSE IF /\ transcript.confidence < CONFIDENCE_CLARIFY_THRESHOLD
            /\ clarification_count < 2
    THEN TurnDetectionResult("needs_clarification", FALSE, TRUE)
    ELSE IF silence_duration_ms < SILENCE_UTTERANCE_END_MS
    THEN TurnDetectionResult("listening", FALSE, FALSE)
    ELSE IF transcript.done_marker
    THEN TurnDetectionResult("utterance_complete", TRUE, FALSE)
    ELSE IF /\ transcript.filler \/ transcript.continuation
            /\ silence_duration_ms < SILENCE_THINKING_MS
    THEN TurnDetectionResult("thinking", FALSE, FALSE)
    ELSE IF silence_duration_ms >= SILENCE_THINKING_MS
    THEN TurnDetectionResult("utterance_complete", TRUE, FALSE)
    ELSE IF /\ transcript.is_final
            /\ transcript.confidence >= CONFIDENCE_CLARIFY_THRESHOLD
    THEN TurnDetectionResult("utterance_complete", TRUE, FALSE)
    ELSE TurnDetectionResult("listening", FALSE, FALSE)

ClarificationsUsedThree(clarify_count) == clarify_count >= 3

\* two clarifications have been asked for this card
ClarificationsUsed(clarify_count) == clarify_count >= 2

\* route_after_check
RouteAfterCheck(action) ==
    CASE action = "timeout" -> "feedback"
      [] action = "clarify" -> "clarifying"
      [] action = "evaluate" -> "evaluate"
      [] OTHER -> "listening"

\* what check_transcript_node returns: the next action, the count and the
\* rating
CheckTranscriptNode(transcript, silence_ms, clarify_count) ==
    IF transcript = NoTranscript
    THEN IF silence_ms >= SILENCE_TIMEOUT_MS
         THEN [next_action |-> "timeout", clarification_count |-> clarify_count,
               rating |-> AGAIN, asked |-> FALSE]
         ELSE [next_action |-> "continue_listening",
               clarification_count |-> clarify_count, rating |-> 0,
               asked |-> FALSE]
    ELSE IF NeedsClarification(transcript)
    THEN IF ClarificationsUsed(clarify_count)
         THEN [next_action |-> "evaluate",
               clarification_count |-> clarify_count, rating |-> 0,
               asked |-> FALSE]
         ELSE [next_action |-> "clarify",
               clarification_count |-> clarify_count + 1, rating |-> 0,
               asked |-> TRUE]
    ELSE [next_action |-> "evaluate", clarification_count |-> clarify_count,
          rating |-> 0, asked |-> FALSE]

TurnUnchanged ==
    /\ UNCHANGED <<dispatched_rooms, dispatch_lock, token_req, api_clock,
                   dispatches, session_cards, current_index, rate_response,
                   end_calls, submit_calls>>
    /\ UNCHANGED <<voiceVars, mgrVars, nodeVars, workerVars>>

\* the listening node, a transcript (or none) from the recogniser, then the
\* check_transcript node and its routing
CheckTranscript(transcript, silence_ms) ==
    /\ graph_run.node = "listening"
    /\ LET checked == CheckTranscriptNode(transcript, silence_ms,
                                          graph_run.clarification_count)
       IN  services' = [services EXCEPT
               !.graph_run.node = RouteAfterCheck(checked.next_action),
               !.graph_run.clarification_count =
                   checked.clarification_count,
               !.graph_run.requests = @ + (IF checked.asked THEN 1 ELSE 0),
               !.graph_run.next_action = checked.next_action,
               !.graph_run.low = /\ transcript # NoTranscript
                                 /\ NeedsClarification(transcript),
               !.graph_run.rating = checked.rating]
    /\ apiOp' = "check_transcript"
    /\ TurnUnchanged

\* the clarifying node and the speaking node after it, back to listening
ClarifyingNode ==
    /\ graph_run.node = "clarifying"
    /\ services' = [services EXCEPT !.graph_run.node = "listening",
                                    !.graph_run.next_action = "none"]
    /\ apiOp' = "clarifying"
    /\ TurnUnchanged

\* the evaluate node and the feedback node that ends the card's run
EvaluateNode ==
    /\ graph_run.node \in {"evaluate", "feedback"}
    /\ services' = [services EXCEPT !.graph_run.node = "end"]
    /\ apiOp' = "feedback"
    /\ TurnUnchanged

\* the graph is started for the next card
PresentCard ==
    /\ graph_run.node = "end"
    /\ services' = [services EXCEPT !.graph_run =
           [NewRun EXCEPT !.analysis = graph_run.analysis]]
    /\ apiOp' = "present_card"
    /\ TurnUnchanged

\* while listening the turn detector is called with the clarifications
\* asked so far
AnalyzeCall(transcript, silence_duration_ms) ==
    /\ graph_run.node = "listening"
    /\ services' = [services EXCEPT !.graph_run.analysis =
           [transcript |-> transcript,
            silence_duration_ms |-> silence_duration_ms,
            clarification_count |-> graph_run.clarification_count]
           @@ Analyze(transcript, silence_duration_ms,
                      graph_run.clarification_count)]
    /\ apiOp' = "analyze"
    /\ TurnUnchanged

NextTurn ==
    \/ \E transcript \in Transcripts \cup {NoTranscript},
          silence_ms \in Silences :
           CheckTranscript(transcript, silence_ms)
    \/ ClarifyingNode
    \/ EvaluateNode
    \/ PresentCard
    \/ \E transcript \in Transcripts \cup {NoTranscript},
          silence_ms \in Silences :
           AnalyzeCall(transcript, silence_ms)

SpecTurn == InitWorker /\ [][NextTurn]_vars

\* C39: at most two clarification requests per card, and once two have been
\* used a low-confidence transcript is not answered with another request:
\* the graph goes on to the evaluation, and the turn detector processes it
\* once the speaker has fallen silent
C39_AtMostTwoClarifications ==
    /\ graph_run.requests <= 2
    /\ (/\ apiOp = "check_transcript"
        /\ graph_run.low
        /\ graph_run.next_action # "clarify")
           => (graph_run.requests = 2 /\ graph_run.next_action = "evaluate")
    /\ (graph_run.analysis.clarification_count >= 2
        /\ graph_run.analysis.transcript # NoTranscript)
           => /\ ~graph_run.analysis.needs_clarification
              /\ graph_run.analysis.silence_duration_ms >= SILENCE_THINKING_MS
                     => graph_run.analysis.should_process

C39_Witness ==
    /\ apiOp = "check_transcript"
    /\ graph_run.low
    /\ graph_run.requests = 2
    /\ graph_run.next_action = "evaluate"
    /\ graph_run.analysis.clarification_count = 2
    /\ graph_run.analysis.transcript # NoTranscript
    /\ graph_run.analysis.transcript.confidence < CONFIDENCE_CLARIFY_THRESHOLD
    /\ graph_run.analysis.should_process


\* ------------------------------------------------- the sessions table
TableUnchanged ==
    /\ UNCHANGED <<dispatched_rooms, dispatch_lock, token_req, api_clock,
                   dispatches, session_cards, current_index, rate_response,
                   end_calls, submit_calls>>
    /\ UNCHANGED <<voiceVars, mgrVars, nodeVars, workerVars>>

\* SessionState.is_terminal
IsTerminal(state) == state \in {"complete", "idle"}

\* RecoveryStore.save_session as start_session calls it: a row for a new
\* session id, in the state the session started in, with no ended_at
StoreSaveSession(sid, state) ==
    /\ sessions_table.rows[sid] = NoRow
    /\ services' = [services EXCEPT
           !.sessions_table.rows[sid] =
               [state |-> state, ended_at |-> None]]
    /\ apiOp' = "save_session"
    /\ TableUnchanged

\* RecoveryStore.end_session as end_session and the timeout call it: the
\* final state and ended_at = now
StoreEndSession(sid, state) ==
    /\ sessions_table.rows[sid] # NoRow
    /\ sessions_table.rows[sid].ended_at = None
    /\ services' = [services EXCEPT
           !.sessions_table.rows[sid] =
               [state |-> state, ended_at |-> sessions_table.now]]
    /\ apiOp' = "store_end_session"
    /\ TableUnchanged

\* time passes
TableTick ==
    /\ sessions_table.now < MaxTicks
    /\ services' = [services EXCEPT !.sessions_table.now = @ + 1]
    /\ apiOp' = "table_tick"
    /\ TableUnchanged

ResetRowKeepEndedAt(row, today) ==
    IF /\ row # NoRow
       /\ row.state \notin {"complete", "idle", "crashed"}
       /\ row.ended_at = None
    THEN [row EXCEPT !.state = "crashed"]
    ELSE row

\* _reset_stale_processing_sync, one row: UPDATE sessions SET state =
\* 'crashed', ended_at = now WHERE state NOT IN ('complete', 'idle',
\* 'crashed') AND ended_at IS NULL
ResetRow(row, today) ==
    IF /\ row # NoRow
       /\ row.state \notin {"complete", "idle", "crashed"}
       /\ row.ended_at = None
    THEN [state |-> "crashed", ended_at |-> today]
    ELSE row

\* init_dependencies: the process starts again over the table the last one
\* left, and reset_stale_processing runs
InitDependencies ==
    /\ services' = [services EXCEPT
           !.sessions_table.rows = [s \in 1..MaxSessions |->
                        ResetRow(sessions_table.rows[s], sessions_table.now)]]
    /\ apiOp' = "init_dependencies"
    /\ TableUnchanged

NextTable ==
    \/ \E sid \in 1..MaxSessions, state \in {"active", "degraded"} :
           StoreSaveSession(sid, state)
    \/ \E sid \in 1..MaxSessions, state \in {"complete", "degraded"} :
           StoreEndSession(sid, state)
    \/ TableTick
    \/ InitDependencies

SpecTable == InitWorker /\ [][NextTable]_vars

\* C40 as stated: on startup every session whose state is not terminal
\* is marked crashed with ended_at = now
C40_NonTerminalMarkedCrashed ==
    [][apiOp' = "init_dependencies"
       => \A s \in 1..MaxSessions :
              (/\ sessions_table.rows[s] # NoRow
               /\ ~IsTerminal(sessions_table.rows[s].state)
               /\ sessions_table.rows[s].state # "crashed")
              => sessions_table'.rows[s] =
                     [state |-> "crashed", ended_at |-> sessions_table.now]]_vars

\* C40, amended: on startup every session that has no ended_at and whose
\* state is not complete, idle or crashed is marked crashed with
\* ended_at = now, every other row (a session that ended DEGRADED among
\* them) is left as it was, and no row is in state active afterwards
C40_UnendedMarkedCrashed ==
    [][apiOp' = "init_dependencies"
       => \A s \in 1..MaxSessions :
              /\ (/\ sessions_table.rows[s] # NoRow
                  /\ ~IsTerminal(sessions_table.rows[s].state)
                  /\ sessions_table.rows[s].state # "crashed"
                  /\ sessions_table.rows[s].ended_at = None)
                 => sessions_table'.rows[s] =
                        [state |-> "crashed",
                         ended_at |-> sessions_table.now]
              /\ (\/ sessions_table.rows[s] = NoRow
                  \/ sessions_table.rows[s].ended_at # None)
                 => sessions_table'.rows[s] = sessions_table.rows[s]
              /\ sessions_table'.rows[s].state # "active"]_vars

C40_Witness ==
    /\ apiOp = "init_dependencies"
    /\ \E s \in 1..MaxSessions :
           sessions_table.rows[s] =
               [state |-> "crashed", ended_at |-> sessions_table.now]
    /\ \E s \in 1..MaxSessions :
           /\ sessions_table.rows[s].state = "degraded"
           /\ sessions_table.rows[s].ended_at # None
           /\ sessions_table.rows[s].ended_at < sessions_table.now
====
